---- MODULE Spec2Model ----
(***************************************************************************)
(* Verification model of gosloppy: the package closure instrumenter        *)
(* (instrument/instrument.go), the patch acceptance rule, the scope        *)
(* walker with its passes, and the retargeting of a go command.            *)
(*                                                                         *)
(* Spec is one run of InstrumentTo over a package tree that go/build reads *)
(* as the run resolves imports; SpecPatch is a sequence of                 *)
(* appendNoContradict calls on one file's patch list; SpecWalk is          *)
(* WalkFile over the files of a package with the ShortError and            *)
(* dead-binding passes (scopewalker.go, shorterror.go, multivisitor.go);   *)
(* SpecMV is a MultiVisitor over arbitrary visitors; SpecCmd is            *)
(* GoCmd.Retarget (instrument/buildcmd.go).                                *)
(*                                                                         *)
(* Strings are sequences of one-character strings, so that prefix tests,   *)
(* path cleaning and substring replacement are computed as the Go library  *)
(* computes them.                                                          *)
(***************************************************************************)
EXTENDS Integers, Sequences, FiniteSets, TLC

(***************************************************************************)
(* String and path library (strings, path/filepath, go/build)              *)
(***************************************************************************)

\* strings.HasPrefix(s, p); filepath.HasPrefix is the same function on unix
HasPrefix(s, p) ==
  /\ Len(p) <= Len(s)
  /\ SubSeq(s, 1, Len(p)) = p

\* strings.Replace(s, old, new, -1): non-overlapping, left to right
RECURSIVE Replace(_, _, _)
Replace(s, old, new) ==
  IF s = <<>> THEN <<>>
  ELSE IF HasPrefix(s, old)
       THEN new \o Replace(SubSeq(s, Len(old) + 1, Len(s)), old, new)
       ELSE <<Head(s)>> \o Replace(Tail(s), old, new)

\* the path elements of s: split on "/" (empty elements kept)
RECURSIVE SplitAcc(_, _, _)
SplitAcc(s, cur, acc) ==
  IF s = <<>> THEN Append(acc, cur)
  ELSE IF Head(s) = "/"
       THEN SplitAcc(Tail(s), <<>>, Append(acc, cur))
       ELSE SplitAcc(Tail(s), Append(cur, Head(s)), acc)

Split(s) == SplitAcc(s, <<>>, <<>>)

\* strings.Join(elems, "/")
RECURSIVE JoinSlash(_)
JoinSlash(elems) ==
  IF elems = <<>> THEN <<>>
  ELSE IF Len(elems) = 1 THEN elems[1]
       ELSE elems[1] \o <<"/">> \o JoinSlash(Tail(elems))

\* the element stack of filepath.Clean: "." and empty elements dropped,
\* ".." pops an element, is dropped at the root, is kept otherwise
RECURSIVE CleanElems(_, _, _)
CleanElems(elems, out, rooted) ==
  IF elems = <<>> THEN out
  ELSE LET e == Head(elems)
           rest == Tail(elems)
       IN IF e = <<>> \/ e = <<".">>
          THEN CleanElems(rest, out, rooted)
          ELSE IF e = <<".", ".">>
               THEN IF out # <<>> /\ out[Len(out)] # <<".", ".">>
                    THEN CleanElems(rest, SubSeq(out, 1, Len(out) - 1), rooted)
                    ELSE IF rooted
                         THEN CleanElems(rest, out, rooted)
                         ELSE CleanElems(rest, Append(out, e), rooted)
               ELSE CleanElems(rest, Append(out, e), rooted)

\* filepath.Clean
Clean(s) ==
  IF s = <<>> THEN <<".">>
  ELSE LET rooted == Head(s) = "/"
           out == CleanElems(Split(s), <<>>, rooted)
       IN IF rooted THEN <<"/">> \o JoinSlash(out)
          ELSE IF out = <<>> THEN <<".">> ELSE JoinSlash(out)

\* filepath.Join of two elements: empty elements are ignored, the result is
\* cleaned, and all elements empty gives the empty string
Join(a, b) ==
  IF a = <<>> /\ b = <<>> THEN <<>>
  ELSE IF a = <<>> THEN Clean(b)
       ELSE IF b = <<>> THEN Clean(a)
            ELSE Clean(a \o <<"/">> \o b)

\* filepath.Dir for a cleaned path with at least one separator
Dir(s) ==
  LET elems == Split(s)
  IN Clean(JoinSlash(SubSeq(elems, 1, Len(elems) - 1)))

\* build.IsLocalImport
IsLocalImport(s) ==
  \/ s = <<".">>
  \/ s = <<".", ".">>
  \/ HasPrefix(s, <<".", "/">>)
  \/ HasPrefix(s, <<".", ".", "/">>)

\* length of the longest common prefix of two element lists
RECURSIVE CommonElems(_, _)
CommonElems(a, b) ==
  IF a = <<>> \/ b = <<>> THEN 0
  ELSE IF Head(a) = Head(b) THEN 1 + CommonElems(Tail(a), Tail(b))
       ELSE 0

\* n copies of ".."
RECURSIVE DotDots(_)
DotDots(n) == IF n = 0 THEN <<>> ELSE <<(<<".", ".">>)>> \o DotDots(n - 1)

RelError == <<"!">>

\* filepath.Rel(basepath, targpath) for relative paths; RelError when the
\* library returns an error
Rel(basepath, targpath) ==
  LET base0 == Clean(basepath)
      targ == Clean(targpath)
      base == IF base0 = <<".">> THEN <<>> ELSE base0
      be == IF base = <<>> THEN <<>> ELSE Split(base)
      te == Split(targ)
      k == CommonElems(be, te)
      brest == SubSeq(be, k + 1, Len(be))
      trest == SubSeq(te, k + 1, Len(te))
  IN IF targ = base0 THEN <<".">>
     ELSE IF brest # <<>> /\ brest[1] = <<".", ".">> THEN RelError
          ELSE IF brest # <<>>
               THEN JoinSlash(DotDots(Len(brest)) \o trest)
               ELSE JoinSlash(trest)


(***************************************************************************)
(* String constants                                                        *)
(***************************************************************************)

S_empty == <<>>
S_dot == <<".">>
S_star == <<"*">>
S_gopath == <<"g", "o", "p", "a", "t", "h">>
S_locals == <<"l", "o", "c", "a", "l", "s">>

\* import paths as written in source files
I_dot_a == <<".", "/", "a">>
I_dotdot_a == <<".", ".", "/", "a">>
I_r == <<"r">>
I_r_a == <<"r", "/", "a">>
I_x == <<"x">>

\* the import paths a source file of the modelled tree may contain, in the
\* order go/build reports them (sorted)
CandOrder == <<I_dotdot_a, I_dot_a, I_r, I_r_a, I_x>>

Cands == {CandOrder[k] : k \in 1..Len(CandOrder)}

\* the import paths a test file of the modelled tree may contain
TestCands == {I_r, I_x}

(***************************************************************************)
(* The file system the run reads: $GOPATH/src is /g, /w is outside GOPATH  *)
(***************************************************************************)

GoPathSrc == <<"/", "g">>

D_s == <<"/", "w", "/", "s">>
D_s_a == <<"/", "w", "/", "s", "/", "a">>
D_w_a == <<"/", "w", "/", "a">>
D_r == <<"/", "g", "/", "r">>
D_r_a == <<"/", "g", "/", "r", "/", "a">>
D_x == <<"/", "g", "/", "x">>

\* the directories that hold a Go package
Dirs == {D_s, D_s_a, D_w_a, D_r, D_r_a, D_x}

\* bounds on the generated import graphs
MaxEdges == 3
MaxImports == 2
MaxTestImports == 1

\* build.Package.ImportPath as go/build sets it: the path below $GOPATH/src
\* for a directory inside GOPATH, "." for any other directory
ImportPathOf(dir) ==
  IF HasPrefix(dir, GoPathSrc \o <<"/">>)
  THEN SubSeq(dir, Len(GoPathSrc) + 2, Len(dir))
  ELSE S_dot

\* build.Import(path, "", 0) succeeds: a non-local path naming a package
\* directory below $GOPATH/src
CanImport(path) ==
  /\ path # <<>>
  /\ ~IsLocalImport(path)
  /\ (GoPathSrc \o <<"/">> \o path) \in Dirs

\* guessBasepkg, when repoRootForImportPathStatic knows no hosting root:
\* climb while the parent directory is itself an importable package
RECURSIVE guessBasepkg(_)
guessBasepkg(p) ==
  IF \E k \in 1..Len(p) : p[k] = "/"
  THEN IF CanImport(Dir(p)) THEN guessBasepkg(Dir(p)) ELSE p
  ELSE p

NoInst == [dir |-> <<>>, ip |-> <<>>, basepkg |-> <<>>, name |-> <<>>, ok |-> FALSE]

\* Import(basepkg, pkgname)
Import(basepkg, pkgname) ==
  IF ~CanImport(pkgname) THEN NoInst
  ELSE [dir |-> GoPathSrc \o <<"/">> \o pkgname,
        ip |-> pkgname,
        basepkg |-> IF basepkg = S_empty THEN guessBasepkg(pkgname) ELSE basepkg,
        name |-> pkgname,
        ok |-> TRUE]

\* ImportDir(basepkg, pkgname)
ImportDir(basepkg, pkgname) ==
  IF pkgname \notin Dirs THEN NoInst
  ELSE [dir |-> pkgname,
        ip |-> ImportPathOf(pkgname),
        basepkg |-> basepkg,
        name |-> pkgname,
        ok |-> TRUE]

\* Instrumentable.IsInGopath
IsInGopath(i) == i.ip # S_dot

\* Instrumentable.relevantImport
relevantImport(i, imp) ==
  IF i.basepkg = S_star THEN TRUE
  ELSE IF IsInGopath(i) \/ i.basepkg # S_empty
       THEN HasPrefix(imp, i.basepkg) \/ HasPrefix(i.basepkg, imp)
       ELSE IsLocalImport(imp)

\* Instrumentable.doimport
doimport(i, pkg) ==
  IF IsLocalImport(pkg)
  THEN ImportDir(i.basepkg, Join(i.dir, pkg))
  ELSE LET r == Import(i.basepkg, pkg)
       IN IF r.ok THEN [r EXCEPT !.name = i.name] ELSE r


(***************************************************************************)
(* State                                                                   *)
(***************************************************************************)

VARIABLES
  root,       \* the Instrumentable InstrumentTo is called on
  withtests,  \* InstrumentTo's withtests argument
  pkgs,       \* what go/build has read of each package directory
  processed,  \* the processed map of one run: the import paths set to true
  stack,      \* the active calls of instrumentTo, innermost last
  status,     \* "idle", "running", "done" (nil returned), "error"
  visits,     \* the calls that passed the processed check, in order, each
              \* with the package of its caller
  out,        \* the instrumentPatchable calls that wrote files, in order
  failed,     \* on error: the call that failed ("import", "parse", "io") and
              \* the import chain from the root down to it
  patches,    \* a file's patch list as appendNoContradict builds it
  walk,       \* WalkFile's position: the files of the package walked so
              \* far, the declarations done, the visitor WalkFile was given
  world,      \* what a walk acts on: the scopes, the ShortError objects,
              \* the patches of the pass, and the record of the calls made
  gocmd       \* a GoCmd, the directory it is retargeted to, the result

vars == <<root, withtests, pkgs, processed, stack, status, visits, out,
          failed, patches, walk, world, gocmd>>

\* the state of the scope walker, the passes and the command model
toolVars == <<walk, world, gocmd>>

\* a nil interface value, a nil pointer, an absent optional node
Nil == [k |-> "nil"]

\* no file is being walked, nothing has been allocated, no command exists
NoWalk == [status |-> "none", files |-> <<>>, declno |-> 0, v |-> Nil]

EmptyWorld ==
  [scopes |-> <<>>, heap |-> <<>>, pat |-> <<>>,
   used |-> {}, unused |-> {}, calls |-> <<>>, subs |-> <<>>]

NoCmd == [status |-> "none"]

NoTools == walk = NoWalk /\ world = EmptyWorld /\ gocmd = NoCmd

closureVars == <<root, withtests, pkgs, processed, stack, status, visits,
                 out, failed>>

(***************************************************************************)
(* build.Package: the import lists of a package directory                  *)
(***************************************************************************)

SortImports(S) == SelectSeq(CandOrder, LAMBDA c : c \in S)

Unread == [read |-> FALSE, imports |-> <<>>, timports |-> <<>>, ximports |-> <<>>]

ImportSets(C, n) == {S \in SUBSET C : Cardinality(S) <= n}

\* the packages a directory may turn out to hold: Imports of the primary
\* files, TestImports of the in-package test files, XTestImports of the
\* external test files
Packages ==
  UNION {{[read |-> TRUE,
           imports |-> SortImports(a),
           timports |-> SortImports(t),
           ximports |-> SortImports(x)] :
            a \in ImportSets(Cands, MaxImports),
            x \in ImportSets(TestCands, MaxTestImports - Cardinality(t))} :
         t \in ImportSets(TestCands, MaxTestImports)}

EdgesOf(c) == Len(c.imports) + Len(c.timports) + Len(c.ximports)

RECURSIVE SumEdges(_, _)
SumEdges(f, D) ==
  IF D = {} THEN 0
  ELSE LET d == CHOOSE e \in D : TRUE
       IN EdgesOf(f[d]) + SumEdges(f, D \ {d})

\* the packages a directory read now may hold, within the graph bound
Readable(f) ==
  LET left == MaxEdges - SumEdges(f, Dirs)
  IN {c \in Packages : EdgesOf(c) <= left}

(***************************************************************************)
(* Construction                                                            *)
(***************************************************************************)

\* the base packages a caller configures
Bases == {S_empty, S_star}

\* the root packages a caller constructs, with Import or with ImportDir
Roots ==
  {Import(b, I_r) : b \in Bases}
    \cup {ImportDir(b, d) : b \in Bases, d \in {D_s, D_r}}

NoFailure == [kind |-> "none", chain |-> <<>>]

Init ==
  /\ root \in Roots
  /\ withtests \in BOOLEAN
  /\ \E c \in Readable([d \in Dirs |-> Unread]) :
       pkgs = [d \in Dirs |-> IF d = root.dir THEN c ELSE Unread]
  /\ processed = {}
  /\ stack = <<>>
  /\ status = "idle"
  /\ visits = <<>>
  /\ out = <<>>
  /\ failed = NoFailure
  /\ patches = <<>>
  /\ NoTools

(***************************************************************************)
(* InstrumentTo / instrumentTo                                             *)
(***************************************************************************)

Frame(i, istest, relpath, via) ==
  [inst |-> i, istest |-> istest, relpath |-> relpath, via |-> via,
   todo |-> <<>>, pc |-> "enter"]

Top == stack[Len(stack)]

SetTop(f) == [stack EXCEPT ![Len(stack)] = f]

\* a call of instrumentTo returns nil to its caller
Return(stk) ==
  /\ stack' = SubSeq(stk, 1, Len(stk) - 1)
  /\ status' = IF Len(stk) = 1 THEN "done" ELSE status

\* a call of instrumentTo returns an error, which every caller passes on
Fail(kind) ==
  /\ failed' = [kind |-> kind,
                chain |-> [k \in 1..Len(stack) |-> stack[k].inst.dir]]
  /\ stack' = <<>>
  /\ status' = "error"

\* a depth of recursion no run reaches while every call marks its package
\* (C3 checks that the limit is never met)
MaxDepth == Cardinality(Dirs) + 2

\* a processed check that never finds the package
IsProcessedNever(map, ip) == FALSE

\* the processed check at the head of instrumentTo
IsProcessed(map, ip) == ip \in map

\* a mark that is lost
MarkProcessedLost(map, ip) == map

\* processed[i.pkg.ImportPath] = true
MarkProcessed(map, ip) == map \cup {ip}

\* InstrumentTo(withtests, outdir, f)
InstrumentTo ==
  /\ status = "idle"
  /\ status' = "running"
  /\ stack' = <<Frame(root, withtests, S_empty, S_empty)>>
  /\ UNCHANGED <<root, withtests, pkgs, processed, visits, out, failed, patches, toolVars>>

\* instrumentTo on a package already processed: return nil
EnterProcessed ==
  /\ status = "running"
  /\ Top.pc = "enter"
  /\ IsProcessed(processed, Top.inst.ip)
  /\ Return(stack)
  /\ UNCHANGED <<root, withtests, pkgs, processed, visits, out, failed, patches, toolVars>>

\* instrumentTo on a package not yet processed: mark it, start on the
\* import lists
EnterFresh ==
  /\ status = "running"
  /\ Top.pc = "enter"
  /\ ~IsProcessed(processed, Top.inst.ip)
  /\ processed' = MarkProcessed(processed, Top.inst.ip)
  /\ visits' = Append(visits,
       [inst |-> Top.inst,
        caller |-> IF Len(stack) = 1 THEN S_empty
                   ELSE stack[Len(stack) - 1].inst.dir])
  /\ LET c == pkgs[Top.inst.dir]
     IN stack' = SetTop([Top EXCEPT !.pc = "loop",
                           !.todo = c.imports \o c.timports \o c.ximports])
  /\ UNCHANGED <<root, withtests, pkgs, status, out, failed, patches, toolVars>>

\* the import loop on an import that is not relevant
SkipImport ==
  /\ status = "running"
  /\ Top.pc = "loop"
  /\ Top.todo # <<>>
  /\ ~relevantImport(Top.inst, Head(Top.todo))
  /\ stack' = SetTop([Top EXCEPT !.todo = Tail(Top.todo)])
  /\ UNCHANGED <<root, withtests, pkgs, processed, status, visits, out, failed, patches, toolVars>>

\* the import loop on a relevant import that doimport cannot resolve
ImportFail ==
  /\ status = "running"
  /\ Top.pc = "loop"
  /\ Top.todo # <<>>
  /\ relevantImport(Top.inst, Head(Top.todo))
  /\ ~doimport(Top.inst, Head(Top.todo)).ok
  /\ Fail("import")
  /\ UNCHANGED <<root, withtests, pkgs, processed, visits, out, patches, toolVars>>

\* the import loop on a relevant import: resolve it and call instrumentTo
\* on it
ImportCall ==
  /\ status = "running"
  /\ Top.pc = "loop"
  /\ Top.todo # <<>>
  /\ Len(stack) < MaxDepth
  /\ LET imp == Head(Top.todo)
         pkg == doimport(Top.inst, imp)
         rel == IF IsLocalImport(imp) THEN Join(Top.relpath, imp) ELSE imp
     IN /\ relevantImport(Top.inst, imp)
        /\ pkg.ok
        /\ IF pkgs[pkg.dir].read
           THEN pkgs' = pkgs
           ELSE \E c \in Readable(pkgs) : pkgs' = [pkgs EXCEPT ![pkg.dir] = c]
        /\ stack' = Append(SetTop([Top EXCEPT !.todo = Tail(Top.todo)]),
                           Frame(pkg, FALSE, rel, imp))
  /\ UNCHANGED <<root, withtests, processed, status, visits, out, failed, patches, toolVars>>


(***************************************************************************)
(* instrumentPatchable                                                     *)
(***************************************************************************)

\* the directory, below outdir, that instrumentPatchable writes to
OutPath(i, relpath) ==
  IF IsLocalImport(relpath)
  THEN Replace(Join(S_locals, relpath), <<".", ".">>, <<"_", "_">>)
  ELSE IF relpath # S_empty
       THEN Join(S_gopath, i.ip)
       ELSE S_empty

\* the switch over one import of a file: the text that replaces the import
\* path, if any (the patches of the pass function lie outside the import
\* declarations, so appendNoContradict accepts each replacement)
RewriteImport(i, path, v) ==
  IF v = i.ip
  THEN [orig |-> v, new |-> S_dot, rewritten |-> TRUE]
  ELSE IF ~relevantImport(i, v)
       THEN [orig |-> v, new |-> v, rewritten |-> FALSE]
       ELSE IF IsLocalImport(v)
            THEN [orig |-> v, new |-> Clean(Join(path, v)), rewritten |-> TRUE]
            ELSE LET t == IF v = i.name THEN S_empty ELSE Join(S_gopath, v)
                     rel == Rel(path, t)
                 IN [orig |-> v,
                     new |-> IF rel = RelError THEN RelError
                             ELSE <<".", "/">> \o rel,
                     rewritten |-> TRUE]

\* one file as written: its base name and its import paths after rewriting
WriteFile(i, path, name, imps) ==
  [name |-> name,
   imports |-> [k \in 1..Len(imps) |-> RewriteImport(i, path, imps[k])]]

\* Files(): the primary files
Files(c) == {[name |-> "p.go", imports |-> c.imports]}

\* TestFiles(): the primary files and the in-package test files
TestFiles(c) ==
  {[name |-> "p.go", imports |-> c.imports],
   [name |-> "p_test.go", imports |-> c.timports]}

\* XTestFiles(): the external test files
XTestFiles(c) == {[name |-> "x_test.go", imports |-> c.ximports]}

\* instrumentPatchable(outdir, relpath, pkg, f) as the record of what it
\* wrote
Patchable(fr, fileset) ==
  LET path == OutPath(fr.inst, fr.relpath)
  IN [inst |-> fr.inst,
      path |-> path,
      via |-> fr.via,
      istest |-> fr.istest,
      files |-> {WriteFile(fr.inst, path, f.name, f.imports) : f \in fileset}]

RelFails(ev) ==
  \E f \in ev.files : \E k \in 1..Len(f.imports) : f.imports[k].new = RelError

\* rendering that does not wait for the import loop to end
AtRenderEarly == status = "running" /\ Top.pc = "loop"

\* the import loop of the innermost call has ended
AtRender == status = "running" /\ Top.pc = "loop" /\ Top.todo = <<>>

\* ParseFiles returns an error, for the file set about to be rendered
ParseFail ==
  /\ status = "running"
  /\ AtRender \/ Top.pc = "xtest"
  /\ Fail("parse")
  /\ UNCHANGED <<root, withtests, pkgs, processed, visits, out, patches, toolVars>>

\* the file set the innermost call is about to write
NextFiles ==
  LET c == pkgs[Top.inst.dir]
  IN IF Top.pc = "xtest" THEN XTestFiles(c)
     ELSE IF Top.istest THEN TestFiles(c) ELSE Files(c)

\* os.MkdirAll, os.Create or Close returns an error in instrumentPatchable:
\* the files written before it stay (the files are taken in map order)
WriteFail ==
  /\ status = "running"
  /\ AtRender \/ Top.pc = "xtest"
  /\ \E S \in SUBSET NextFiles :
       out' = IF S = {} THEN out ELSE Append(out, Patchable(Top, S))
  /\ Fail("io")
  /\ UNCHANGED <<root, withtests, pkgs, processed, visits, patches, toolVars>>

\* !istest: parse Files() and write them, return nil
RenderFiles ==
  /\ AtRender
  /\ ~Top.istest
  /\ LET ev == Patchable(Top, Files(pkgs[Top.inst.dir]))
     IN IF RelFails(ev)
        THEN Fail("io") /\ out' = out
        ELSE out' = Append(out, ev) /\ Return(stack) /\ failed' = failed
  /\ UNCHANGED <<root, withtests, pkgs, processed, visits, patches, toolVars>>

\* istest: parse TestFiles() and write them
RenderTestFiles ==
  /\ AtRender
  /\ Top.istest
  /\ LET ev == Patchable(Top, TestFiles(pkgs[Top.inst.dir]))
     IN IF RelFails(ev)
        THEN Fail("io") /\ out' = out
        ELSE /\ out' = Append(out, ev)
             /\ stack' = SetTop([Top EXCEPT !.pc = "xtest"])
             /\ UNCHANGED <<status, failed>>
  /\ UNCHANGED <<root, withtests, pkgs, processed, visits, patches, toolVars>>

\* istest: parse XTestFiles() and write them, return nil
RenderXTestFiles ==
  /\ status = "running"
  /\ Top.pc = "xtest"
  /\ LET ev == Patchable(Top, XTestFiles(pkgs[Top.inst.dir]))
     IN IF RelFails(ev)
        THEN Fail("io") /\ out' = out
        ELSE out' = Append(out, ev) /\ Return(stack) /\ failed' = failed
  /\ UNCHANGED <<root, withtests, pkgs, processed, visits, patches, toolVars>>

Next ==
  \/ InstrumentTo
  \/ EnterProcessed
  \/ EnterFresh
  \/ SkipImport
  \/ ImportFail
  \/ ImportCall
  \/ ParseFail
  \/ WriteFail
  \/ RenderFiles
  \/ RenderTestFiles
  \/ RenderXTestFiles

Spec == Init /\ [][Next]_vars


(***************************************************************************)
(* SpecPatch: appendNoContradict on one file's patch list                  *)
(***************************************************************************)

\* bounds on the patches offered
MaxPos == 4
MaxPatches == 3

\* a patch by its range in the original text: Insert has start = end
PatchRanges == {[start |-> a, end |-> b] : a \in 0..MaxPos, b \in 0..MaxPos}

\* the rejection test of appendNoContradict, for one accepted patch p
Contradicts(toadd, p) ==
  \/ toadd.end <= p.end /\ toadd.end >= p.start
  \/ toadd.start <= p.end /\ toadd.start >= p.start

\* appendNoContradict(patches, toadd)
appendNoContradict(ps, toadd) ==
  IF \E k \in 1..Len(ps) : Contradicts(toadd, ps[k])
  THEN ps
  ELSE Append(ps, toadd)

InitPatch ==
  /\ root = NoInst
  /\ withtests = FALSE
  /\ pkgs = [d \in Dirs |-> Unread]
  /\ processed = {}
  /\ stack = <<>>
  /\ status = "patching"
  /\ visits = <<>>
  /\ out = <<>>
  /\ failed = NoFailure
  /\ patches = <<>>
  /\ NoTools

\* one call patches = appendNoContradict(patches, toadd)
AppendPatch ==
  /\ status = "patching"
  /\ Len(patches) < MaxPatches
  /\ \E toadd \in PatchRanges :
       /\ toadd.start <= toadd.end
       /\ patches' = appendNoContradict(patches, toadd)
  /\ UNCHANGED <<closureVars, toolVars>>

NextPatch == AppendPatch

SpecPatch == InitPatch /\ [][NextPatch]_vars

(***************************************************************************)
(* The syntax tree (go/ast) the scope walker is given                      *)
(*                                                                         *)
(* A node is a record with its kind in k.  A node is identified by its     *)
(* path from the file (the model's token.Pos): a sequence of child names.  *)
(* An identifier's name is the pair of a stem and a number, so that        *)
(* fmt.Sprint(stem, n) is a name like any other; -1 stands for no number.  *)
(***************************************************************************)

Name(stem, n) == [stem |-> stem, n |-> n]
Nm(stem) == Name(stem, -1)

N_blank == Nm("_")
N_init == Nm("init")
N_int == Nm("int")
N_x == Nm("x")
N_y == Nm("y")
N_f == Nm("f")
N_T == Nm("T")

\* MustKeyword
MustKeyword == Nm("must")

\* ast.Object: the name and the kind of a declared entity
Obj(name, kind) == [name |-> name, kind |-> kind]

\* expressions
Ident(name) == [k |-> "Ident", name |-> name]
CallExpr(fun, args) == [k |-> "CallExpr", fun |-> fun, args |-> args]
FuncLit(body) == [k |-> "FuncLit", body |-> body]

\* statements
ExprStmt(x) == [k |-> "ExprStmt", x |-> x]
AssignStmt(lhs, tok, rhs) == [k |-> "AssignStmt", lhs |-> lhs, tok |-> tok, rhs |-> rhs]
ValueSpec(names, values) == [k |-> "ValueSpec", names |-> names, values |-> values]
DeclStmt(specs) == [k |-> "DeclStmt", specs |-> specs]
LabeledStmt(stmt) == [k |-> "LabeledStmt", stmt |-> stmt]
IfStmt(init, cond, body, els) ==
  [k |-> "IfStmt", init |-> init, cond |-> cond, body |-> body, els |-> els]
ForStmt(init, cond, post, body) ==
  [k |-> "ForStmt", init |-> init, cond |-> cond, post |-> post, body |-> body]
RangeStmt(key, value, tok, x, body) ==
  [k |-> "RangeStmt", key |-> key, value |-> value, tok |-> tok, x |-> x,
   body |-> body]
CaseClause(list, body) == [k |-> "CaseClause", list |-> list, body |-> body]
SwitchStmt(init, tag, body) ==
  [k |-> "SwitchStmt", init |-> init, tag |-> tag, body |-> body]
BlockStmt(list) == [k |-> "BlockStmt", list |-> list]

\* declarations; recv is the receiver's name or Nil, a field is a name with
\* its type
Field(name, type) == [name |-> name, type |-> type]
FuncDecl(recv, name, params, body) ==
  [k |-> "FuncDecl", recv |-> recv, name |-> name, params |-> params, body |-> body]
GenDecl(specs) == [k |-> "GenDecl", specs |-> specs]

\* ast.File
File(decls) == [k |-> "File", decls |-> decls]

\* the names of the children of a node that are lists
Idx == <<"1", "2", "3", "4", "5", "6">>

\* the names the parser has put in file.Scope: the package-level functions
\* (no methods, no init) and variables of the file
DeclNames(d) ==
  IF d.k = "FuncDecl"
  THEN IF d.recv = Nil /\ d.name # N_init THEN {d.name} ELSE {}
  ELSE UNION {{s.names[j] : j \in 1..Len(s.names)} :
                s \in {d.specs[i] : i \in 1..Len(d.specs)}} \ {N_blank}

PkgNames(decls) == UNION {DeclNames(decls[i]) : i \in 1..Len(decls)}

(***************************************************************************)
(* Scopes (go/ast Scope): world.scopes[s] is the scope with identity s,    *)
(* 0 is the nil scope                                                      *)
(***************************************************************************)

\* ast.NewScope(outer), called for the node at path; the new scope is
\* Len(scopes) of the result
NewScope(W, outer, path) ==
  [W EXCEPT !.scopes = Append(@, [outer |-> outer, names |-> {}, node |-> path])]

Newest(W) == Len(W.scopes)

insertToScope(W, scope, obj) ==
  IF obj.name = N_blank THEN W
  ELSE IF obj.kind = "Fun" /\ obj.name = N_init THEN W
  ELSE [W EXCEPT !.scopes[scope].names = @ \cup {obj.name}]

\* the scope of the chain from scope outwards that binds name, 0 if none
RECURSIVE Lookup(_, _, _)
Lookup(W, scope, name) ==
  IF scope = 0 THEN 0
  ELSE IF name \in W.scopes[scope].names THEN scope
  ELSE Lookup(W, W.scopes[scope].outer, name)

(***************************************************************************)
(* patch.Insert and patch.Replace as the passes call them.  A position is  *)
(* an edge of a node; a text is kept by what it says, not as characters.   *)
(***************************************************************************)

Pos(path, edge) == [node |-> path, edge |-> edge]
Insert(pos, text) == [op |-> "Insert", pos |-> pos, text |-> text]
ReplaceNode(path, text) == [op |-> "Replace", pos |-> Pos(path, "Pos"), text |-> text]

\* the texts ShortError writes: a name, "var a, b = <source of a node>" with
\* or without the panic guard on b after it, ", name", the source of a node,
\* nothing, a panic guard, the guards of the init routine (inside a new
\* func init() or not)
TxtName(name) == [t |-> "name", names |-> <<name>>]
TxtVar(tmp, err, value, guarded) ==
  [t |-> "var", names |-> <<tmp, err>>, value |-> value, guarded |-> guarded]
TxtErrName(name) == [t |-> "errname", names |-> <<name>>]
TxtSource(path) == [t |-> "source", names |-> <<>>, value |-> path]
TxtEmpty == [t |-> "empty", names |-> <<>>]
TxtGuard(name) == [t |-> "guard", names |-> <<name>>]
TxtInit(guards, newfunc) == [t |-> "init", names |-> guards, newfunc |-> newfunc]

(***************************************************************************)
(* ShortError (shorterror.go).  A *ShortError is [k |-> "se", p |-> a]     *)
(* with a an address of world.heap; the patches pointer of every           *)
(* ShortError made for a file is the same list, kept in world.pat.         *)
(***************************************************************************)

SE(p) == [k |-> "se", p |-> p]

\* the nil ast.Stmt and the nil *ast.BlockStmt (a node's path is not empty)
NoPath == <<>>

\* &ShortError{file, patches, stmt, block, tmpvar, new([]byte)}
ShortErrorObj(file, stmt, block, tmpvar) ==
  [file |-> file, stmt |-> stmt, block |-> block, tmpvar |-> tmpvar, initTxt |-> <<>>]

\* NewShortError(file): the pointer is Len(heap) of the result
NewShortError(W, file) ==
  [W EXCEPT !.heap = Append(@, ShortErrorObj(file, NoPath, NoPath, 0))]

AppendPatches(W, ps) == [W EXCEPT !.pat = @ \o ps]

\* the loop of tempVar: the first n from tmpvar on with no binding named
\* stem n in the scope chain (names are finitely many, the limit of 10*1000
\* is never reached)
RECURSIVE tempVarLoop(_, _, _, _)
tempVarLoop(W, scope, stem, n) ==
  IF Lookup(W, scope, Name(stem, n)) = 0 THEN n
  ELSE tempVarLoop(W, scope, stem, n + 1)

\* v.tempVar(stem, scope): the name, and the world with v.tmpvar advanced
tempVar(W, p, stem, scope) ==
  LET n == tempVarLoop(W, scope, stem, W.heap[p].tmpvar)
  IN [W |-> [W EXCEPT !.heap[p].tmpvar = n + 1], name |-> Name(stem, n)]

\* the first FuncDecl named init among the declarations, 0 if none
findinit(decls) ==
  LET hits == {i \in 1..Len(decls) :
                 decls[i].k = "FuncDecl" /\ decls[i].name = N_init}
  IN IF hits = {} THEN 0 ELSE CHOOSE i \in hits : \A j \in hits : i <= j

addToInit(W, p, guard) == [W EXCEPT !.heap[p].initTxt = Append(@, guard)]

IsMustCall(e) == e.k = "CallExpr" /\ e.fun.k = "Ident" /\ e.fun.name = MustKeyword

\* v.VisitExpr(scope, expr) for v = SE(p); expr is the node at path of the
\* file at path[1]
\* the patches of VisitExpr for the must call at path, given the names
\* tempVar returned and the world W after the two calls of tempVar
SE_Hoist(W, p, tmpVar, tmpErr, path) ==
  IF W.heap[p].block = NoPath
  THEN AppendPatches(addToInit(W, p, tmpErr),
         <<ReplaceNode(path, TxtName(tmpVar)),
           Insert(Pos(<<path[1]>>, "End"),
                  TxtVar(tmpVar, tmpErr, path \o <<"arg", "1">>, FALSE))>>)
  ELSE AppendPatches(W,
         <<Insert(Pos(W.heap[p].stmt, "Pos"),
                  TxtVar(tmpVar, tmpErr, path \o <<"arg", "1">>, TRUE)),
           ReplaceNode(path, TxtName(tmpVar))>>)

\* "tmpVar, tmpErr := v.tempVar("tmp_", scope), v.tempVar("err_", scope)"
\* from the second call on, t1 what the first call gave
SE_TempErr(t1, t2, p, path) == SE_Hoist(t2.W, p, t1.name, t2.name, path)
SE_TempVar(t1, p, scope, path) ==
  SE_TempErr(t1, tempVar(t1.W, p, "err_", scope), p, path)

SE_VisitExpr(W, p, scope, expr, path) ==
  IF ~IsMustCall(expr) THEN [W |-> W, v |-> SE(p)]
  ELSE IF Len(expr.args) # 1 THEN [W |-> W, v |-> Nil]
  ELSE [W |-> SE_TempVar(tempVar(W, p, "tmp_", scope), p, scope, path),
        v |-> SE(p)]

\* the loop of VisitDecl over decl.Specs from spec i on
RECURSIVE SE_VisitSpecs(_, _, _, _, _, _)
SE_VisitSpecs(W, p, scope, decl, path, i) ==
  IF i > Len(decl.specs) THEN [W |-> W, v |-> Nil]
  ELSE
    LET spec == decl.specs[i]
        sp == path \o <<"spec", Idx[i]>>
    IN IF spec.k = "ValueSpec" /\ Len(spec.values) = 1
          /\ spec.values[1].k = "CallExpr"
       THEN LET fun == spec.values[1]
                fp == sp \o <<"value", "1">>
            IN IF ~(fun.fun.k = "Ident" /\ fun.fun.name = MustKeyword)
               THEN [W |-> W, v |-> SE(p)]
               ELSE IF Len(fun.args) # 1 THEN [W |-> W, v |-> Nil]
               ELSE
                 LET t == tempVar(W, p, "tlderr_", scope)
                     W1 == AppendPatches(t.W,
                             <<Insert(Pos(sp \o <<"name", Idx[Len(spec.names)]>>, "End"),
                                      TxtErrName(t.name)),
                               ReplaceNode(fp, TxtSource(fp \o <<"arg", "1">>))>>)
                 IN SE_VisitSpecs(addToInit(W1, p, t.name), p, scope, decl, path, i + 1)
       ELSE SE_VisitSpecs(W, p, scope, decl, path, i + 1)

\* v.VisitDecl(scope, decl)
SE_VisitDecl(W, p, scope, decl, path) ==
  IF decl.k = "GenDecl" THEN SE_VisitSpecs(W, p, scope, decl, path, 1)
  ELSE [W |-> W, v |-> SE(p)]

\* the loop "for _, arg := range rhs.Args { v.VisitExpr(scope, arg) }"
RECURSIVE SE_VisitArgs(_, _, _, _, _, _)
SE_VisitArgs(W, p, scope, args, path, i) ==
  IF i > Len(args) THEN W
  ELSE SE_VisitArgs(SE_VisitExpr(W, p, scope, args[i], path \o <<"arg", Idx[i]>>).W,
                    p, scope, args, path, i + 1)

\* what VisitStmt writes first: v.stmt = stmt
SetStmt(W, p, path) == [W EXCEPT !.heap[p].stmt = path]

\* v.VisitStmt(scope, stmt)
SE_VisitStmt(W, p, scope, stmt, path) ==
  LET W0 == SetStmt(W, p, path)
      obj == W0.heap[p]
  IN IF stmt.k = "BlockStmt"
     THEN LET W1 == [W0 EXCEPT !.heap =
                       Append(@, ShortErrorObj(obj.file, obj.stmt, path, 0))]
          IN [W |-> W1, v |-> SE(Len(W1.heap))]
     ELSE IF stmt.k = "AssignStmt" /\ Len(stmt.rhs) = 1 /\ IsMustCall(stmt.rhs[1])
     THEN LET t == tempVar(W0, p, "assignerr_", scope)
              rp == path \o <<"rhs", "1">>
              W1 == AppendPatches(t.W,
                      <<Insert(Pos(path, "TokPos"), TxtErrName(t.name)),
                        ReplaceNode(rp \o <<"fun">>, TxtEmpty),
                        Insert(Pos(path, "End"), TxtGuard(t.name))>>)
          IN [W |-> SE_VisitArgs(W1, p, scope, stmt.rhs[1].args, rp, 1), v |-> Nil]
     ELSE [W |-> W0, v |-> SE(p)]

\* v.ExitScope(scope, node, last); node is the node at path
SE_ExitScope(W, p, scope, node, path) ==
  LET txt == W.heap[p].initTxt
  IN IF node.k = "File" /\ Len(txt) > 0
     THEN LET init == findinit(node.decls)
          IN [W |-> AppendPatches(W,
                      IF init # 0
                      THEN <<Insert(Pos(path \o <<"decl", Idx[init], "body">>, "Lbrace+1"),
                                    TxtInit(txt, FALSE))>>
                      ELSE <<Insert(Pos(path, "End"), TxtInit(txt, TRUE))>>),
              v |-> SE(p)]
     ELSE [W |-> W, v |-> SE(p)]

(***************************************************************************)
(* The dead-binding detector (NewUnusedVisitor): it marks the binding an   *)
(* identifier resolves to in the scope it is visited with, and reports     *)
(* the unmarked bindings of a scope when the scope is exited.  A binding   *)
(* is the pair of its scope and its name.                                  *)
(***************************************************************************)

UN == [k |-> "un"]

Binding(scope, name) == [scope |-> scope, name |-> name]

UN_VisitExpr(W, scope, expr) ==
  LET s == IF expr.k = "Ident" THEN Lookup(W, scope, expr.name) ELSE 0
  IN [W |-> IF s = 0 THEN W
            ELSE [W EXCEPT !.used = @ \cup {Binding(s, expr.name)}],
      v |-> UN]

UN_ExitScope(W, scope) ==
  [W |-> [W EXCEPT !.unused =
            @ \cup ({Binding(scope, n) : n \in W.scopes[scope].names} \ W.used)],
   v |-> UN]

(***************************************************************************)
(* Any other ScopeVisitor: Abs(id, script) answers a call with nil when    *)
(* the head of its script is FALSE, with the visitor for the rest of the   *)
(* script when it is TRUE, and with itself when the script is over.        *)
(***************************************************************************)

Abs(id, script) == [k |-> "abs", id |-> id, script |-> script]

Abs_Visit(W, w) ==
  [W |-> W,
   v |-> IF w.script = <<>> THEN w
         ELSE IF Head(w.script) THEN Abs(w.id, Tail(w.script))
         ELSE Nil]

\* w.VisitExpr(scope, node), w.VisitStmt(scope, node), w.VisitDecl(scope,
\* node) or w.ExitScope(scope, node, last) on a visitor that is not nil:
\* the method m of the dynamic type of w
Invoke(W, w, m, scope, node, path) ==
  CASE w.k = "se" /\ m = "VisitExpr" -> SE_VisitExpr(W, w.p, scope, node, path)
    [] w.k = "se" /\ m = "VisitStmt" -> SE_VisitStmt(W, w.p, scope, node, path)
    [] w.k = "se" /\ m = "VisitDecl" -> SE_VisitDecl(W, w.p, scope, node, path)
    [] w.k = "se" /\ m = "ExitScope" -> SE_ExitScope(W, w.p, scope, node, path)
    [] w.k = "un" /\ m = "VisitExpr" -> UN_VisitExpr(W, scope, node)
    [] w.k = "un" /\ m = "ExitScope" -> UN_ExitScope(W, scope)
    [] w.k = "un" /\ m \in {"VisitStmt", "VisitDecl"} -> [W |-> W, v |-> UN]
    [] w.k = "abs" -> Abs_Visit(W, w)

\* the state that can be read through a visitor value: the fields of the
\* ShortError a pointer points to, the value itself otherwise
Observed(W, w) ==
  IF w.k = "se"
  THEN [stmt |-> W.heap[w.p].stmt, block |-> W.heap[w.p].block,
        tmpvar |-> W.heap[w.p].tmpvar]
  ELSE w

(***************************************************************************)
(* MultiVisitor (multivisitor.go) over the copy-on-write array cow         *)
(***************************************************************************)

MV(ar) == [k |-> "multi", ar |-> ar]

\* NewMultiVisitor(v...)
NewMultiVisitor(vs) == MV(vs)

\* c.Set(i, w): a new array that differs from c in slot i, c unchanged
cowSet(ar, i, w) == [ar EXCEPT ![i] = w]

AllNilFirst(v) == Len(v.ar) = 0 \/ v.ar[1] = Nil

AllNil(v) == \A i \in 1..Len(v.ar) : v.ar[i] = Nil

\* the patches and the init guards written so far
RECURSIVE SumInitTxt(_, _)
SumInitTxt(heap, i) ==
  IF i > Len(heap) THEN 0 ELSE Len(heap[i].initTxt) + SumInitTxt(heap, i + 1)

Written(W) == Len(W.pat) + SumInitTxt(W.heap, 1)

\* one call of a sub-visitor, as world.subs records it: made within the
\* call number call of world.calls, for slot, on the node arg at path; pre
\* and post are the states read through the receiver before and after the
\* call, made is the number of patches and guards the call wrote
SubCall(call, slot, w, m, scope, arg, path, ret, pre, post, made) ==
  [call |-> call, slot |-> slot, recv |-> w, m |-> m, scope |-> scope,
   arg |-> arg, node |-> path, ret |-> ret, pre |-> pre, post |-> post,
   made |-> made]

\* the loop "for i, w := range v.ar" of the four methods from slot i on:
\* ar is the array the range statement evaluated, cur the value of v
RECURSIVE MV_Range(_, _, _, _, _, _, _, _)
RECURSIVE MV_Slot(_, _, _, _, _, _, _, _, _)
MV_Range(W, ar, cur, m, scope, node, path, i) ==
  IF i > Len(ar) THEN [W |-> W, v |-> cur]
  ELSE IF ar[i] = Nil THEN MV_Range(W, ar, cur, m, scope, node, path, i + 1)
  ELSE MV_Slot(W, ar, cur, m, scope, node, path, i,
               Invoke(W, ar[i], m, scope, node, path))

\* one round of the loop, r what w.VisitX(scope, node) gave for w = ar[i]:
\* "v = MultiVisitor{v.Set(i, r)}", then the rounds after it
MV_Slot(W, ar, cur, m, scope, node, path, i, r) ==
  MV_Range([r.W EXCEPT !.subs =
              Append(@, SubCall(Len(W.calls) + 1, i, ar[i], m, scope, node, path,
                                r.v, Observed(W, ar[i]), Observed(r.W, ar[i]),
                                Written(r.W) - Written(W)))],
           ar, MV(cowSet(cur.ar, i, r.v)), m, scope, node, path, i + 1)

\* v.VisitExpr, v.VisitStmt, v.VisitDecl, v.ExitScope of a MultiVisitor v;
\* slots is v.ar when the loop is over
MV_Return(r) == [W |-> r.W, v |-> IF AllNil(r.v) THEN Nil ELSE r.v, slots |-> r.v.ar]

MV_Visit(W, v, m, scope, node, path) ==
  MV_Return(MV_Range(W, v.ar, v, m, scope, node, path, 1))

\* a call the walker makes on the visitor it holds, recorded in world.calls
Logged(r, v, m, scope, path) ==
  [W |-> [r.W EXCEPT !.calls =
            Append(@, [m |-> m, scope |-> scope, node |-> path, recv |-> v,
                       ret |-> r.v, slots |-> r.slots])],
   v |-> r.v]

Call(W, v, m, scope, node, path) ==
  Logged(IF v.k = "multi" THEN MV_Visit(W, v, m, scope, node, path)
         ELSE Invoke(W, v, m, scope, node, path) @@ [slots |-> <<>>],
         v, m, scope, path)

(***************************************************************************)
(* The scope walker (scopewalker.go).  A walk is run as a machine          *)
(* [W, tasks, ret]: W is the world, tasks the calls still to make, first   *)
(* to last, ret the scope the last WalkStmt returned.  Every function of   *)
(* the walker gives the calls its body makes, in the order of the source;  *)
(* path is the path of the node walked.  The statement and expression      *)
(* kinds walked are those of the syntax trees above.                       *)
(***************************************************************************)

\* a scope argument of a call still to make: the scope s, the scope the
\* WalkStmt before it returned ("inner = WalkStmt(v, s, inner)"), or the
\* local variable inner of the statement being walked
Sc(s) == [ref |-> "id", id |-> s]
Ret == [ref |-> "ret", id |-> 0]
Inner == [ref |-> "inner", id |-> 0]

Task(t, v, node, scope, path, aux) ==
  [t |-> t, v |-> v, node |-> node, scope |-> scope, path |-> path, aux |-> aux]

\* WalkExpr(v, expr, scope) and newscope = WalkStmt(v, stmt, scope)
TExpr(v, expr, scope, path) == Task("expr", v, expr, scope, path, Ret)
TStmt(v, stmt, scope, path) == Task("stmt", v, stmt, scope, path, Ret)
\* v.ExitScope(scope) and exitScopes(v, inner, limit)
TExit(v, scope, path) == Task("exit", v, Nil, scope, path, Ret)
TExits(v, inner, limit, path) == Task("exits", v, Nil, inner, path, limit)
\* insertToScope(scope, name.Obj) for every name
TNames(names, scope) == Task("names", Nil, names, scope, <<>>, Ret)
\* one round of the loop over decl.Specs of a DeclStmt, newscope the scope
\* of the round before
TSpec(v, spec, scope, path, newscope) == Task("spec", v, spec, scope, path, newscope)
\* "return" of WalkStmt with newscope = scope
TReturn(scope) == Task("ret", Nil, Nil, scope, <<>>, Ret)
\* "inner = ..." for the k calls after it
TInner(k) == Task("bind", Nil, Nil, Ret, <<>>, Sc(k))
\* the case for a declaration of WalkFile
TDecl(v, d, fscope, path) == Task("decl", v, d, Sc(fscope), path, Ret)

Resolve(M, s) == IF s.ref = "ret" THEN M.ret ELSE s.id

\* the loop "for _, name := range names { insertToScope(scope, name.Obj) }"
RECURSIVE InsertNames(_, _, _, _)
InsertNames(W, scope, names, i) ==
  IF i > Len(names) THEN W
  ELSE InsertNames(insertToScope(W, scope, Obj(names[i], "Var")), scope, names, i + 1)

\* v.ExitScope(scope) as the walker calls it; the visitors above take the
\* node the scope belongs to as well, which is the file for file.Scope
ExitScope(W, v, scope, node, path) == Call(W, v, "ExitScope", scope, node, path).W

\* the loop "for _, e := range list { WalkExpr(v, e, scope) }"; the
\* children are named child 1, child 2, ...
WalkExprs(v, list, scope, path, child) ==
  [i \in 1..Len(list) |-> TExpr(v, list[i], scope, path \o <<child, Idx[i]>>)]

\* the loop "for _, s := range list { inner = WalkStmt(v, s, inner) }"
WalkList(v, list, path) ==
  [i \in 1..Len(list) |-> TStmt(v, list[i], Ret, path \o <<"list", Idx[i]>>)]

\* the loop over decl.Specs of a DeclStmt: every spec opens a scope inside
\* the one before, its values are walked in the scope of the statement
WalkSpecs(v, specs, scope, path) ==
  [i \in 1..Len(specs) |-> TSpec(v, specs[i], Sc(scope), path \o <<"spec", Idx[i]>>, Ret)]

\* "inner := scope; if stmt.Init != nil { inner = WalkStmt(v, stmt.Init, inner) }"
\* and the calls that follow it in the statement
WalkInit(v, init, scope, path, calls) ==
  <<IF init # Nil THEN TStmt(v, init, Sc(scope), path \o <<"init">>)
    ELSE TReturn(Sc(scope)),
    TInner(Len(calls))>> \o calls

\* a call of WalkExpr or WalkStmt for a child that may be nil in the tree
IfAny(task) == IF task.node # Nil THEN <<task>> ELSE <<>>

\* WalkExpr after "v = v.VisitExpr(scope, expr)", r what the call gave
WalkExpr(r, expr, scope, path) ==
  IF r.v = Nil THEN [W |-> r.W, tasks |-> <<>>]
  ELSE CASE expr.k = "FuncLit" ->
              [W |-> NewScope(r.W, scope, path),
               tasks |-> <<TStmt(r.v, expr.body, Sc(Len(r.W.scopes) + 1),
                                 path \o <<"body">>),
                           TExit(r.v, Sc(Len(r.W.scopes) + 1), path)>>]
         [] expr.k = "CallExpr" ->
              [W |-> r.W,
               tasks |-> <<TExpr(r.v, expr.fun, Sc(scope), path \o <<"fun">>)>>
                           \o WalkExprs(r.v, expr.args, Sc(scope), path, "arg")]
         [] OTHER -> [W |-> r.W, tasks |-> <<>>]

\* WalkStmt after "v = v.VisitStmt(scope, stmt)", r what the call gave, w
\* the visitor; the last call returns newscope
WalkStmt(r, w, stmt, scope, path) ==
  LET Same(W, tasks) == [W |-> W, tasks |-> tasks \o <<TReturn(Sc(scope))>>]
      new == Len(r.W.scopes) + 1
  IN IF w = Nil THEN Same(r.W, <<>>)
     ELSE CASE stmt.k = "ExprStmt" ->
                 Same(r.W, <<TExpr(w, stmt.x, Sc(scope), path \o <<"x">>)>>)
            [] stmt.k = "AssignStmt" ->
                 IF stmt.tok = "DEFINE"
                 THEN [W |-> NewScope(r.W, scope, path),
                       tasks |-> WalkExprs(w, stmt.rhs, Sc(scope), path, "rhs")
                                   \o <<TNames([j \in 1..Len(stmt.lhs) |-> stmt.lhs[j].name],
                                               Sc(new)),
                                        TReturn(Sc(new))>>]
                 ELSE Same(r.W, WalkExprs(w, stmt.lhs, Sc(scope), path, "lhs")
                                  \o WalkExprs(w, stmt.rhs, Sc(scope), path, "rhs"))
            [] stmt.k = "DeclStmt" ->
                 [W |-> r.W,
                  tasks |-> <<TReturn(Sc(scope))>> \o WalkSpecs(w, stmt.specs, scope, path)]
            [] stmt.k = "LabeledStmt" ->
                 Same(r.W, <<TStmt(w, stmt.stmt, Sc(scope), path \o <<"stmt">>)>>)
            [] stmt.k = "IfStmt" ->
                 Same(r.W, WalkInit(w, stmt.init, scope, path,
                        <<TExpr(w, stmt.cond, Sc(scope), path \o <<"cond">>),
                          TStmt(w, stmt.body, Inner, path \o <<"body">>)>>
                          \o IfAny(TStmt(w, stmt.els, Inner, path \o <<"else">>))
                          \o <<TExits(w, Inner, Sc(scope), path)>>))
            [] stmt.k = "ForStmt" ->
                 Same(r.W, WalkInit(w, stmt.init, scope, path,
                        IfAny(TExpr(w, stmt.cond, Sc(scope), path \o <<"cond">>))
                          \o IfAny(TStmt(w, stmt.post, Sc(scope), path \o <<"post">>))
                          \o <<TStmt(w, stmt.body, Sc(scope), path \o <<"body">>),
                               TExits(w, Inner, Sc(scope), path)>>))
            [] stmt.k = "RangeStmt" ->
                 IF stmt.tok = "ASSIGN"
                 THEN Same(r.W, <<TExpr(w, stmt.key, Sc(scope), path \o <<"key">>),
                                  TExpr(w, stmt.value, Sc(scope), path \o <<"value">>),
                                  TStmt(w, stmt.body, Sc(scope), path \o <<"body">>),
                                  TExits(w, Sc(scope), Sc(scope), path)>>)
                 ELSE Same(NewScope(r.W, scope, path),
                           <<TNames(IF stmt.value # Nil
                                    THEN <<stmt.key.name, stmt.value.name>>
                                    ELSE <<stmt.key.name>>, Sc(new)),
                             TStmt(w, stmt.body, Sc(scope), path \o <<"body">>),
                             TExits(w, Sc(new), Sc(scope), path)>>)
            [] stmt.k = "CaseClause" ->
                 Same(NewScope(r.W, scope, path),
                      WalkExprs(w, stmt.list, Sc(scope), path, "expr")
                        \o <<TReturn(Sc(new))>> \o WalkList(w, stmt.body, path)
                        \o <<TExits(w, Ret, Sc(scope), path)>>)
            [] stmt.k = "SwitchStmt" ->
                 Same(r.W, WalkInit(w, stmt.init, scope, path,
                        <<TExpr(w, stmt.tag, Sc(scope), path \o <<"tag">>),
                          TStmt(w, stmt.body, Inner, path \o <<"body">>),
                          TExits(w, Inner, Sc(scope), path)>>))
            [] stmt.k = "BlockStmt" ->
                 Same(NewScope(r.W, scope, path),
                      <<TReturn(Sc(new))>> \o WalkList(w, stmt.list, path)
                        \o <<TExits(w, Ret, Sc(scope), path)>>)

\* one round of the loop over decl.Specs of a DeclStmt
WalkSpec(W, v, spec, scope, newscope, path) ==
  [W |-> InsertNames(NewScope(W, newscope, SubSeq(path, 1, Len(path) - 2)),
                     Len(W.scopes) + 1, spec.names, 1),
   tasks |-> WalkExprs(v, spec.values, Sc(scope), path, "value")
               \o <<TReturn(Sc(Len(W.scopes) + 1))>>]

\* WalkFields(v, fields, scope)
WalkFields(v, fields, scope, path) ==
  [i \in 1..(2 * Len(fields)) |->
     IF i % 2 = 1 THEN TNames(<<fields[(i + 1) \div 2].name>>, Sc(scope))
     ELSE TExpr(v, fields[i \div 2].type, Sc(scope), path \o <<"param", Idx[i \div 2]>>)]

\* the loop over the specs of a GenDecl of WalkFile: the values of every
\* ValueSpec are walked in file.Scope
RECURSIVE WalkValueSpecs(_, _, _, _, _)
WalkValueSpecs(v, specs, fscope, path, i) ==
  IF i > Len(specs) THEN <<>>
  ELSE WalkExprs(v, specs[i].values, Sc(fscope), path \o <<"spec", Idx[i]>>, "value")
         \o WalkValueSpecs(v, specs, fscope, path, i + 1)

\* the case *ast.FuncDecl of WalkFile
WalkFuncDecl(W, v, d, fscope, path) ==
  [W |-> NewScope(W, fscope, path),
   tasks |-> (IF d.recv # Nil THEN <<TNames(<<d.recv.name>>, Sc(Len(W.scopes) + 1))>>
              ELSE <<>>)
               \o WalkFields(v, d.params, Len(W.scopes) + 1, path)
               \o (IF d.body # Nil
                   THEN <<TStmt(v, d.body, Sc(Len(W.scopes) + 1), path \o <<"body">>)>>
                   ELSE <<>>)
               \o <<TExit(v, Sc(Len(W.scopes) + 1), path)>>]

\* one round of the loop over file.Decls of WalkFile after the visitor for
\* the declaration has been asked for, r what the call gave
WalkFileDecl(r, d, fscope, path) ==
  IF r.v = Nil THEN [W |-> r.W, tasks |-> <<>>]
  ELSE IF d.k = "FuncDecl" THEN WalkFuncDecl(r.W, r.v, d, fscope, path)
  ELSE [W |-> r.W, tasks |-> WalkValueSpecs(r.v, d.specs, fscope, path, 1)]

\* "inner = ...": the local variable inner of the k calls that follow is
\* the scope the WalkStmt before returned
BindInner(tasks, k, inner) ==
  [i \in 1..Len(tasks) |->
     IF i <= k /\ tasks[i].scope = Inner THEN [tasks[i] EXCEPT !.scope = Sc(inner)]
     ELSE tasks[i]]

\* the visitor for a declaration of the file is what v.VisitDecl(file.Scope,
\* d) returns, called before the walker descends into d
VisitDecl(t) == t.t = "decl"

\* the method of the visitor a call of the walker starts with
Method(t) ==
  CASE t.t = "expr" -> "VisitExpr"
    [] t.t = "stmt" -> "VisitStmt"
    [] VisitDecl(t) -> "VisitDecl"
    [] OTHER -> "ExitScope"

\* the machine after the walker function of call t, x the world and the
\* calls the function makes
Called(M, rest, x) == [W |-> x.W, tasks |-> x.tasks \o rest, ret |-> M.ret]

\* the call t after its visitor method has returned r
Visited(M, t, rest, scope, r) ==
  CASE t.t = "expr" -> Called(M, rest, WalkExpr(r, t.node, scope, t.path))
    [] t.t = "stmt" -> Called(M, rest, WalkStmt(r, r.v, t.node, scope, t.path))
    [] VisitDecl(t) -> Called(M, rest, WalkFileDecl(r, t.node, scope, t.path))
    [] t.t = "exit" -> [W |-> r.W, tasks |-> rest, ret |-> M.ret]
    [] t.t = "exits" ->
         [W |-> r.W,
          tasks |-> <<TExits(t.v, Sc(M.W.scopes[scope].outer), t.aux, t.path)>> \o rest,
          ret |-> M.ret]

\* exitScopes(v, inner, limit): one round of its loop
exitScopes(M, t, rest, inner) ==
  IF inner = t.aux.id THEN [M EXCEPT !.tasks = rest]
  ELSE IF inner = 0
  THEN [M EXCEPT !.tasks = rest,
                 !.W.calls = Append(@, [m |-> "panic", scope |-> 0, node |-> t.path,
                                        recv |-> t.v, ret |-> Nil, slots |-> <<>>])]
  ELSE Visited(M, t, rest, inner,
               Call(M.W, t.v, "ExitScope", inner, Nil, t.path))

\* the first call still to make
Step(M, t, rest, scope) ==
  CASE t.t = "ret" -> [M EXCEPT !.tasks = rest, !.ret = scope]
    [] t.t = "bind" -> [M EXCEPT !.tasks = BindInner(rest, t.aux.id, M.ret)]
    [] t.t = "names" ->
         [M EXCEPT !.tasks = rest, !.W = InsertNames(M.W, scope, t.node, 1)]
    [] t.t = "spec" ->
         Called(M, rest, WalkSpec(M.W, t.v, t.node, scope, Resolve(M, t.aux), t.path))
    [] t.t = "exits" -> exitScopes(M, t, rest, scope)
    [] OTHER -> Visited(M, t, rest, scope,
                        Call(M.W, t.v, Method(t), scope, t.node, t.path))

\* the calls are made until none is left
RECURSIVE Run(_)
Run(M) ==
  IF M.tasks = <<>> THEN M.W
  ELSE Run(Step(M, Head(M.tasks), Tail(M.tasks), Resolve(M, Head(M.tasks).scope)))

\* one round of the loop over file.Decls of WalkFile
WalkDecl(W, v, d, fscope, path) ==
  Run([W |-> W, tasks |-> <<TDecl(v, d, fscope, path)>>, ret |-> 0])

(***************************************************************************)
(* SpecWalk: WalkFile over the files of a package, every file with a       *)
(* MultiVisitor of the passes, one of them a ShortError made for the file  *)
(***************************************************************************)

\* bounds on the files walked: the statements before the last statement of
\* the function body, the declarations after the function, the files
MaxPrefix == 1
MaxExtra == 1
MaxFiles == 2

X == Ident(N_x)
Y == Ident(N_y)
Must(args) == CallExpr(Ident(MustKeyword), args)
F(args) == CallExpr(Ident(N_f), args)
Define(name, e) == AssignStmt(<<Ident(name)>>, "DEFINE", <<e>>)
Assign(name, e) == AssignStmt(<<Ident(name)>>, "ASSIGN", <<e>>)
Block1(s) == BlockStmt(<<s>>)
NoBlock == BlockStmt(<<>>)

\* the statements a function body may start with: x := y, f(must(x)), and
\* a variable of the program that has the name of a temporary
Prefixes ==
  {Define(N_x, Y), ExprStmt(F(<<Must(<<X>>)>>)), Define(Name("tmp_", 0), Y)}

ExprStmts ==
  {ExprStmt(e) : e \in {X, Must(<<X>>), Must(<<>>), F(<<Must(<<X>>)>>),
                        F(<<Must(<<X, Y>>)>>),
                        F(<<FuncLit(Block1(ExprStmt(X))), Must(<<X>>)>>),
                        F(<<FuncLit(Block1(ExprStmt(F(<<Must(<<X>>)>>))))>>)}}

AssignStmts ==
  {Define(N_y, Must(<<X>>)), Define(N_y, Must(<<>>)), Define(N_y, Must(<<X, Y>>)),
   Assign(N_x, Must(<<X>>)), Assign(N_x, Y),
   DeclStmt(<<ValueSpec(<<N_y>>, <<X>>)>>),
   DeclStmt(<<ValueSpec(<<N_y>>, <<Must(<<X>>)>>)>>),
   LabeledStmt(Define(N_y, X)),
   LabeledStmt(DeclStmt(<<ValueSpec(<<N_y>>, <<X>>)>>))}

Inits == {Nil, Define(N_y, X)}
Conds == {X, Y, Must(<<Y>>)}
Bodies == {NoBlock, Block1(ExprStmt(Y)), Block1(ExprStmt(F(<<Must(<<Y>>)>>)))}

IfStmts ==
  {IfStmt(i, c, b, e) :
     i \in Inits, c \in Conds, b \in Bodies,
     e \in {Nil, Block1(ExprStmt(Y)), IfStmt(Nil, Must(<<X>>), NoBlock, Nil)}}

ForStmts ==
  {ForStmt(i, c, p, b) :
     i \in Inits, c \in Conds \cup {Nil}, p \in {Nil, Assign(N_y, X)},
     b \in {NoBlock, Block1(ExprStmt(Y))}}

RangeStmts ==
  {RangeStmt(Ident(N_y), Nil, "DEFINE", X, b) : b \in Bodies}
    \cup {RangeStmt(Ident(N_y), Ident(N_blank), "DEFINE", X, NoBlock),
          RangeStmt(X, Nil, "ASSIGN", X, NoBlock)}

SwitchStmts ==
  {SwitchStmt(i, t, Block1(CaseClause(<<X>>, <<s>>))) :
     i \in Inits, t \in {Y, Nil}, s \in {ExprStmt(Y), Define(N_x, Must(<<Y>>))}}

BlockStmts ==
  {Block1(ExprStmt(F(<<Must(<<X>>)>>))),
   BlockStmt(<<Define(N_y, X), ExprStmt(Y)>>)}

\* the statements a function body may end with
Stmts ==
  ExprStmts \cup AssignStmts \cup IfStmts \cup ForStmts \cup RangeStmts
    \cup SwitchStmts \cup BlockStmts

RECURSIVE SeqsUpTo(_, _)
SeqsUpTo(S, n) ==
  IF n = 0 THEN {<<>>}
  ELSE LET T == SeqsUpTo(S, n - 1)
       IN T \cup {Append(q, e) : q \in T, e \in S}

FuncBodies ==
  {BlockStmt(Append(q, s)) : q \in SeqsUpTo(Prefixes, MaxPrefix), s \in Stmts}

\* func f(x int) { ... }
MainFuncs == {FuncDecl(Nil, N_f, <<Field(N_x, Ident(N_int))>>, b) : b \in FuncBodies}

\* func init() {}, func (x T) init() {}, var y = must(x), var y = must(),
\* var y = f(must(x)), var x, y = must(x), must(y)
Extras ==
  {FuncDecl(Nil, N_init, <<>>, NoBlock),
   FuncDecl(Field(N_x, Ident(N_T)), N_init, <<>>, NoBlock),
   GenDecl(<<ValueSpec(<<N_y>>, <<Must(<<X>>)>>)>>),
   GenDecl(<<ValueSpec(<<N_y>>, <<Must(<<>>)>>)>>),
   GenDecl(<<ValueSpec(<<N_y>>, <<F(<<Must(<<X>>)>>)>>)>>),
   GenDecl(<<ValueSpec(<<N_x, N_y>>, <<Must(<<X>>), Must(<<Y>>)>>)>>)}

\* the first file of the package: the function and up to MaxExtra of the
\* other declarations, or up to MaxExtra + 1 of the other declarations
AstFiles ==
  {File(<<f>> \o q) : f \in MainFuncs, q \in SeqsUpTo(Extras, MaxExtra)}
    \cup {File(q) : q \in SeqsUpTo(Extras, MaxExtra + 1) \ {<<>>}}

\* the files after it
MoreFiles ==
  {File(<<d>>) : d \in {GenDecl(<<ValueSpec(<<N_x>>, <<F(<<Must(<<Y>>)>>)>>)>>),
                        GenDecl(<<ValueSpec(<<N_x>>, <<Must(<<Y>>)>>)>>)}}

\* the passes a caller composes
PassLists == {<<"ShortError">>, <<"ShortError", "Unused">>}

\* the closure instrumenter and the patch list are not in use
ToolsOnly(st) ==
  /\ root = NoInst
  /\ withtests = FALSE
  /\ pkgs = [d \in Dirs |-> Unread]
  /\ processed = {}
  /\ stack = <<>>
  /\ status = st
  /\ visits = <<>>
  /\ out = <<>>
  /\ failed = NoFailure
  /\ patches = <<>>

InitWalk ==
  /\ ToolsOnly("walking")
  /\ \E ps \in PassLists :
       walk = [status |-> "start", files |-> <<>>, declno |-> 0, v |-> Nil,
               passes |-> ps, fscope |-> 0]
  /\ world = EmptyWorld
  /\ gocmd = NoCmd

FileTag == <<"file1", "file2", "file3", "file4">>

\* the file WalkFile is walking and its path
CurFile == walk.files[Len(walk.files)]
CurPath == <<FileTag[Len(walk.files)]>>

\* the parser's file.Scope, NewShortError(file) and NewMultiVisitor(passes...)
\* for the next file of the package, then WalkFile(v, file) up to its loop
ParseFile(file) ==
  LET tag == <<FileTag[Len(walk.files) + 1]>>
      W0 == NewScope(world, 0, tag)
      W1 == [W0 EXCEPT !.scopes[Newest(W0)].names = PkgNames(file.decls)]
      W2 == NewShortError(W1, tag)
      v == NewMultiVisitor([i \in 1..Len(walk.passes) |->
                              IF walk.passes[i] = "ShortError"
                              THEN SE(Len(W2.heap)) ELSE UN])
  IN /\ world' = W2
     /\ walk' = [walk EXCEPT !.status = "walking", !.files = Append(@, file),
                             !.declno = 0, !.v = v, !.fscope = Newest(W0)]

WalkFileStart ==
  /\ walk.status \in {"start", "exited"}
  /\ Len(walk.files) < MaxFiles
  /\ \E file \in IF walk.files = <<>> THEN AstFiles ELSE MoreFiles : ParseFile(file)
  /\ UNCHANGED <<closureVars, patches, gocmd>>

\* one round of "for _, d := range file.Decls", d a FuncDecl
WalkFileFuncDecl ==
  /\ walk.status = "walking"
  /\ walk.declno < Len(CurFile.decls)
  /\ LET i == walk.declno + 1
     IN /\ CurFile.decls[i].k = "FuncDecl"
        /\ world' = WalkDecl(world, walk.v, CurFile.decls[i], walk.fscope,
                             CurPath \o <<"decl", Idx[i]>>)
        /\ walk' = [walk EXCEPT !.declno = i]
  /\ UNCHANGED <<closureVars, patches, gocmd>>

\* one round of "for _, d := range file.Decls", d a GenDecl
WalkFileGenDecl ==
  /\ walk.status = "walking"
  /\ walk.declno < Len(CurFile.decls)
  /\ LET i == walk.declno + 1
     IN /\ CurFile.decls[i].k = "GenDecl"
        /\ world' = WalkDecl(world, walk.v, CurFile.decls[i], walk.fscope,
                             CurPath \o <<"decl", Idx[i]>>)
        /\ walk' = [walk EXCEPT !.declno = i]
  /\ UNCHANGED <<closureVars, patches, gocmd>>

\* the last statement of WalkFile: v.ExitScope(file.Scope)
WalkFileExit ==
  /\ walk.status = "walking"
  /\ walk.declno = Len(CurFile.decls)
  /\ world' = ExitScope(world, walk.v, walk.fscope, CurFile, CurPath)
  /\ walk' = [walk EXCEPT !.status = "exited"]
  /\ UNCHANGED <<closureVars, patches, gocmd>>

NextWalk ==
  \/ WalkFileStart
  \/ WalkFileFuncDecl
  \/ WalkFileGenDecl
  \/ WalkFileExit

SpecWalk == InitWalk /\ [][NextWalk]_vars

(***************************************************************************)
(* SpecMV: the calls a walker makes on a MultiVisitor of any visitors;     *)
(* world.calls and world.subs hold the record of the latest call           *)
(***************************************************************************)

\* the number of visitors composed
MaxSlots == 3

\* what the composed visitors answer to the calls to come
Scripts == {<<>>, <<TRUE>>, <<FALSE>>, <<TRUE, FALSE>>}

\* the nodes and the scopes of the calls
SomeNodes == {<<"file1", "decl", "1">>, <<"file1", "decl", "2">>}
SomeScopes == {1, 2}

InitMV ==
  /\ ToolsOnly("composing")
  /\ \E n \in 0..MaxSlots :
       \E ar \in [1..n -> {Nil} \cup {Abs(0, s) : s \in Scripts}] :
         walk = [status |-> "composed", files |-> <<>>, declno |-> 0,
                 v |-> NewMultiVisitor([i \in 1..n |->
                                          IF ar[i] = Nil THEN Nil
                                          ELSE Abs(i, ar[i].script)])]
  /\ world = EmptyWorld
  /\ gocmd = NoCmd

\* the walker calls method m of the visitor it holds; for a subtree it
\* goes on with the visitor returned, for a sibling with the one it called
MVCall(m) ==
  /\ walk.status = "composed"
  /\ walk.v # Nil
  /\ \E scope \in SomeScopes, path \in SomeNodes, descend \in BOOLEAN :
       LET r == Call([world EXCEPT !.calls = <<>>, !.subs = <<>>], walk.v, m,
                     scope, Nil, path)
       IN /\ world' = r.W
          /\ walk' = [walk EXCEPT !.v = IF descend THEN r.v ELSE @]
  /\ UNCHANGED <<closureVars, patches, gocmd>>

MVVisitExpr == MVCall("VisitExpr")
MVVisitStmt == MVCall("VisitStmt")
MVVisitDecl == MVCall("VisitDecl")
MVExitScope == MVCall("ExitScope")

NextMV == MVVisitExpr \/ MVVisitStmt \/ MVVisitDecl \/ MVExitScope

SpecMV == InitMV /\ [][NextMV]_vars

(***************************************************************************)
(* SpecCmd: GoCmd.Retarget (instrument/buildcmd.go).  A Flags map is a     *)
(* reference: gocmd.maps[a] is the map with address a.                     *)
(***************************************************************************)

S_o == <<"o">>
S_b_o == <<"b", "/", "o">>
S_t_o == <<"/", "t", "/", "o">>
D_t == <<"/", "t">>
D_s_i == <<"/", "w", "s", "/", "i">>
S_t == <<"t">>

\* filepath.IsAbs
IsAbs(s) == s # <<>> /\ Head(s) = "/"

\* filepath.Base of a cleaned path
Base(s) ==
  LET elems == Split(s)
  IN IF elems[Len(elems)] = <<>> THEN <<"/">> ELSE elems[Len(elems)]

\* filepath.Rel(basepath, targpath): an absolute and a relative path have
\* no relative path between them
FilepathRel(basepath, targpath) ==
  IF IsAbs(basepath) # IsAbs(targpath) THEN RelError
  ELSE Rel(basepath, targpath)

\* flags[name], "" when the map has no such key
FlagValue(flags, name) == IF name \in DOMAIN flags THEN flags[name] ELSE <<>>

\* flags[name] = value
SetFlag(flags, name, value) ==
  [n \in DOMAIN flags \cup {name} |-> IF n = name THEN value ELSE flags[n]]

\* flags.Clone(): a new map with the entries of maps[a]
Clone(maps, a) == [maps |-> Append(maps, maps[a]), a |-> Len(maps) + 1]

NoName == [err |-> TRUE, name |-> <<>>]

\* cmd.getOutputFileName(); main tells whether the package go/build finds
\* is a package main
getOutputFileName(cmd, main) ==
  IF Len(cmd.Params) > 1 THEN NoName
  ELSE LET pkg == IF Len(cmd.Params) = 0 THEN ImportDir(S_empty, cmd.WorkDir)
                  ELSE Import(S_empty, cmd.Params[1])
       IN IF ~pkg.ok THEN NoName
          ELSE IF ~main THEN NoName
          ELSE [err |-> FALSE, name |-> Base(pkg.dir)]

GoCmd(workdir, executable, command, buildflags, params, extraflags) ==
  [WorkDir |-> workdir, Executable |-> executable, Command |-> command,
   BuildFlags |-> buildflags, Params |-> params, ExtraFlags |-> extraflags]

\* cmd.Retarget(newdir): the maps afterwards, the error, the new command
Retarget(maps, cmd, newdir, main) ==
  LET rel == FilepathRel(newdir, cmd.WorkDir)
      c == Clone(maps, cmd.BuildFlags)
      Failed == [maps |-> c.maps, err |-> TRUE, cmd |-> Nil]
      Made(ms) == [maps |-> ms, err |-> FALSE,
                   cmd |-> GoCmd(newdir, cmd.Executable, cmd.Command, c.a,
                                 cmd.Params, cmd.ExtraFlags)]
  IN IF rel = RelError THEN [maps |-> maps, err |-> TRUE, cmd |-> Nil]
     ELSE IF cmd.Command \in {"run", "test"} THEN Made(c.maps)
     ELSE IF cmd.Command = "build"
     THEN LET v0 == FlagValue(maps[cmd.BuildFlags], "o")
              n == IF v0 = <<>> THEN getOutputFileName(cmd, main) ELSE NoName
          IN IF v0 = <<>> /\ n.err THEN Failed
             ELSE Made([c.maps EXCEPT ![c.a] =
                          SetFlag(@, "o", Join(rel, IF v0 = <<>> THEN n.name ELSE v0))])
     ELSE Failed

\* the commands a caller makes and the directories it retargets them to
WorkDirs == {D_s, D_r}
NewDirs == {D_t, D_s_i, S_t}
OutFlags == {<<>>, S_o, S_b_o, S_t_o}
ParamLists == {<<>>, <<I_r_a>>, <<I_dot_a>>, <<I_r, I_x>>}
Commands == {"build", "run", "test", "get"}

FlagMaps ==
  {[n \in D |-> IF n = "o" THEN o ELSE <<"1">>] :
     D \in {{}, {"v"}, {"o"}, {"o", "v"}}, o \in OutFlags \ {<<>>}}

InitCmd ==
  /\ ToolsOnly("retargeting")
  /\ walk = NoWalk
  /\ world = EmptyWorld
  /\ \E wd \in WorkDirs, nd \in NewDirs, c \in Commands, f \in FlagMaps,
        ps \in ParamLists, main \in BOOLEAN :
       gocmd = [status |-> "made", maps |-> <<f>>, given |-> f,
                cmd |-> GoCmd(wd, "go", c, 1, ps, <<"-x">>),
                newdir |-> nd, main |-> main, res |-> Nil]

\* Retarget returns a command
RetargetDone ==
  /\ gocmd.status = "made"
  /\ LET r == Retarget(gocmd.maps, gocmd.cmd, gocmd.newdir, gocmd.main)
     IN /\ ~r.err
        /\ gocmd' = [gocmd EXCEPT !.status = "retargeted", !.maps = r.maps,
                                  !.res = r.cmd]
  /\ UNCHANGED <<closureVars, patches, walk, world>>

\* Retarget returns an error
RetargetError ==
  /\ gocmd.status = "made"
  /\ LET r == Retarget(gocmd.maps, gocmd.cmd, gocmd.newdir, gocmd.main)
     IN /\ r.err
        /\ gocmd' = [gocmd EXCEPT !.status = "error", !.maps = r.maps]
  /\ UNCHANGED <<closureVars, patches, walk, world>>

NextCmd == RetargetDone \/ RetargetError

SpecCmd == InitCmd /\ [][NextCmd]_vars


(***************************************************************************)
(* Derived notions the properties are stated in                            *)
(***************************************************************************)

SeqRange(q) == {q[k] : k \in 1..Len(q)}

\* the directories some instrumentPatchable call has written
WrittenDirs == {out[k].inst.dir : k \in 1..Len(out)}

\* the import lists a package is instrumented with
ImportsOf(i, tests) ==
  LET c == pkgs[i.dir]
  IN SeqRange(c.imports)
       \cup (IF tests THEN SeqRange(c.timports) \cup SeqRange(c.ximports) ELSE {})

\* the packages the relevant, resolvable imports of i lead to
Succ(i, tests) ==
  {doimport(i, imp) : imp \in {m \in ImportsOf(i, tests) :
                                 relevantImport(i, m) /\ doimport(i, m).ok}}

RECURSIVE ReachFrom(_)
ReachFrom(S) ==
  LET N == S \cup UNION {Succ(i, FALSE) : i \in S}
  IN IF N = S THEN S ELSE ReachFrom(N)

\* the closure of the root: test imports count for the root of a run with
\* tests only
Closure == ReachFrom({root} \cup Succ(root, withtests))

ClosureDirs == {i.dir : i \in Closure}

\* a directory of the output tree, "" and "." both naming outdir itself
Loc(p) == IF p = S_empty THEN S_dot ELSE Clean(p)

(***************************************************************************)
(* Properties                                                              *)
(***************************************************************************)

\* C1: within one run no package passes the processed check twice and no
\* file of a package is written twice, whatever the import graph
C1_InstrumentedOnce ==
  /\ \A j, k \in 1..Len(visits) : visits[j].inst.dir = visits[k].inst.dir => j = k
  /\ \A j, k \in 1..Len(out) :
       (/\ out[j].inst.dir = out[k].inst.dir
        /\ \E f \in out[j].files : \E g \in out[k].files : f.name = g.name)
         => j = k

\* a package imported both by the root and by another package the root
\* imports is reached a second time, after it was written
C1_Witness ==
  /\ status = "running"
  /\ Top.pc = "enter"
  /\ Top.inst.dir \in WrittenDirs
  /\ \E i \in Succ(root, TRUE) :
       /\ i.dir \notin {root.dir, Top.inst.dir}
       /\ Top.inst.dir \in {j.dir : j \in Succ(i, TRUE)}
       /\ Top.inst.dir \in {j.dir : j \in Succ(root, TRUE)}

\* C2: when the run returns nil, every member of the closure is written
C2_ClosureWritten ==
  status = "done" => \A d \in ClosureDirs : d \in WrittenDirs

\* the import paths a run can mark processed
ImportPaths == {ImportPathOf(d) : d \in Dirs}

FrameWeight(fr) ==
  IF fr.pc = "enter" THEN 1
  ELSE IF fr.pc = "xtest" THEN 2
       ELSE 3 + 2 * Len(fr.todo)

RECURSIVE StackWeight(_)
StackWeight(stk) ==
  IF stk = <<>> THEN 0 ELSE FrameWeight(Head(stk)) + StackWeight(Tail(stk))

\* the work a run has left: the import paths not yet processed, the
\* imports the active calls have still to look at, and the steps left in
\* each active call
Variant ==
  (2 * MaxEdges + 3) * Cardinality(ImportPaths \ processed)
    + StackWeight(stack)
    + (IF status = "idle" THEN 2 ELSE 0)

\* the running call can take its next step: the only step with a limit is
\* a further recursive call
CanStep ==
  /\ stack # <<>>
  /\ (Top.pc = "loop" /\ Top.todo # <<>>
        /\ relevantImport(Top.inst, Head(Top.todo))
        /\ doimport(Top.inst, Head(Top.todo)).ok)
       => Len(stack) < MaxDepth

\* C3: every run returns: each step of a run strictly decreases a natural
\* number, a run that has not returned can take a step, and the calls that
\* do work never outnumber the packages
C3_Terminates ==
  /\ [][Variant' < Variant]_vars
  /\ [](Variant >= 0)
  /\ [](status = "running" => CanStep)
  /\ [](Len(visits) <= Cardinality(Dirs))

\* a run over an import cycle has returned nil: the root is imported back
\* by a package it reaches
C3_Witness ==
  /\ status = "done"
  /\ \E k \in 2..Len(visits) :
       \E i \in Succ(visits[k].inst, TRUE) : i.dir = root.dir

\* C4: every rewritten import path, resolved from the directory its file
\* is written to, names the directory the imported package is written to
C4_RewrittenResolves ==
  \A k \in 1..Len(out) : \A f \in out[k].files : \A n \in 1..Len(f.imports) :
    LET m == f.imports[n]
        target == IF m.orig = out[k].inst.ip THEN out[k].inst
                  ELSE doimport(out[k].inst, m.orig)
    IN m.rewritten =>
         \A j \in 1..Len(out) :
           out[j].inst.dir = target.dir
             => Loc(out[j].path) = Loc(Join(out[k].path, m.new))

\* C5: the root is written to outdir, a package reached by a local import
\* below locals/, a package reached by a non-local import to
\* gopath/<import path>
C5_OutputLocation ==
  \A k \in 1..Len(out) :
    LET e == out[k]
    IN /\ e.via = S_empty => e.path = S_empty
       /\ IsLocalImport(e.via) => HasPrefix(e.path, S_locals \o <<"/">>)
       /\ (e.via # S_empty /\ ~IsLocalImport(e.via))
            => e.path = S_gopath \o <<"/">> \o e.inst.ip

\* the precedence the relevance predicate is documented to follow
StatedRelevance(basepkg, imp) ==
  IF basepkg = S_star THEN TRUE
  ELSE IF basepkg # S_empty
       THEN HasPrefix(imp, basepkg) \/ HasPrefix(basepkg, imp)
       ELSE IsLocalImport(imp)

\* C6: relevantImport follows the stated precedence on every import the
\* loop tests
C6_RelevancePrecedence ==
  (status = "running" /\ Top.pc = "loop" /\ Top.todo # <<>>) =>
    relevantImport(Top.inst, Head(Top.todo))
      = StatedRelevance(Top.inst.basepkg, Head(Top.todo))

\* C7: after an error, nothing of the failing package or of the packages
\* on the import chain down to it has been written
C7_NothingOfFailedChain ==
  (status = "error" /\ failed.kind \in {"import", "parse"}) =>
    \A d \in SeqRange(failed.chain) : d \notin WrittenDirs

CalledFresh(p, d) ==
  \E v \in 1..Len(visits) : visits[v].inst.dir = d /\ visits[v].caller = p

C9_TestImportsOnlyForTests ==
  \A k \in 1..Len(visits) : visits[k].inst.dir \in ClosureDirs

\* whether two patch ranges overlap: they share text, or one is an
\* insertion strictly inside the other
Overlap(p, q) ==
  \/ p.start < q.end /\ q.start < p.end
  \/ p.start = p.end /\ q.start < p.start /\ p.start < q.end
  \/ q.start = q.end /\ p.start < q.start /\ q.start < p.end

\* C10: no two patches of the list overlap
C10_NoOverlap ==
  \A j, k \in 1..Len(patches) : j # k => ~Overlap(patches[j], patches[k])

(***************************************************************************)
(* Properties of the visitor composer, the scope walker and the passes     *)
(***************************************************************************)

\* the calls of sub-visitors made within call c of world.calls, for slot i
SubsOf(c, i) ==
  {j \in 1..Len(world.subs) : world.subs[j].call = c /\ world.subs[j].slot = i}

\* C11: a call of VisitExpr, VisitStmt, VisitDecl or ExitScope on a
\* MultiVisitor invokes every sub-visitor that is not nil exactly once, with
\* the node and the scope of the call; a nil sub-visitor is not invoked and
\* stays nil; slot i of the composed visitor holds what sub-visitor i
\* returned; and the call returns nil exactly when every slot is nil then
C11_ComposedVisit ==
  \A c \in 1..Len(world.calls) :
    LET e == world.calls[c]
    IN e.recv.k = "multi" =>
         /\ Len(e.slots) = Len(e.recv.ar)
         /\ \A i \in 1..Len(e.recv.ar) :
              IF e.recv.ar[i] = Nil
              THEN SubsOf(c, i) = {} /\ e.slots[i] = Nil
              ELSE /\ Cardinality(SubsOf(c, i)) = 1
                   /\ \A j \in SubsOf(c, i) :
                        /\ world.subs[j].recv = e.recv.ar[i]
                        /\ world.subs[j].m = e.m
                        /\ world.subs[j].scope = e.scope
                        /\ world.subs[j].node = e.node
                        /\ e.slots[i] = world.subs[j].ret
         /\ (e.ret = Nil) <=> (\A i \in 1..Len(e.slots) : e.slots[i] = Nil)
         /\ e.ret # Nil => e.ret = MV(e.slots)

\* a call on a composed visitor with a nil slot, a sub-visitor that
\* returned nil and a sub-visitor that returned a visitor
C11_Witness ==
  \E c \in 1..Len(world.calls) :
    LET e == world.calls[c]
    IN /\ e.recv.k = "multi"
       /\ \E i, j, l \in 1..Len(e.recv.ar) :
            /\ e.recv.ar[i] = Nil
            /\ e.recv.ar[j] # Nil /\ e.slots[j] = Nil
            /\ e.recv.ar[l] # Nil /\ e.slots[l] # Nil /\ e.slots[l] # e.recv.ar[l]

\* C12: a Visit call on a visitor value leaves the state that can be read
\* through that value as it was (for a ShortError its stmt, block and
\* tmpvar fields), so that a sibling subtree walked with the same value
\* sees the state of before the call
C12_VisitorsPersistent ==
  \A j \in 1..Len(world.subs) :
    world.subs[j].m \in {"VisitExpr", "VisitStmt", "VisitDecl"} =>
      world.subs[j].post = world.subs[j].pre

\* the calls of ExitScope with scope s, by their numbers in world.calls
ExitsOf(s) ==
  {c \in 1..Len(world.calls) :
     world.calls[c].m = "ExitScope" /\ world.calls[c].scope = s}

\* C13: when WalkFile is over, ExitScope has been called exactly once with
\* every scope the walker opened (the scope of a defining assignment or of
\* a declaration under a label included), and with a scope before it is
\* called with the scope that encloses it
C13_ExitOncePerScope ==
  walk.status = "exited" =>
    \A s \in 1..Len(world.scopes) :
      /\ Cardinality(ExitsOf(s)) = 1
      /\ world.scopes[s].outer # 0 =>
           \A c \in ExitsOf(s), d \in ExitsOf(world.scopes[s].outer) : c < d

\* a call of must with a number of arguments other than one
BadMust(e) == IsMustCall(e) /\ Len(e.args) # 1

\* the node a ShortError is called with holds such a call where the method
\* looks for must: the expression itself, the only right-hand side of an
\* assignment, the only value of a spec of a declaration
BadMustFor(m, node) ==
  \/ m = "VisitExpr" /\ BadMust(node)
  \/ m = "VisitStmt" /\ node.k = "AssignStmt" /\ Len(node.rhs) = 1
       /\ BadMust(node.rhs[1])
  \/ m = "VisitDecl" /\ node.k = "GenDecl"
       /\ \E i \in 1..Len(node.specs) :
            Len(node.specs[i].values) = 1 /\ BadMust(node.specs[i].values[1])

\* C14: called on a must with a number of arguments other than one,
\* ShortError writes no patch and no init guard and returns nil
C14_BadMustSkipped ==
  \A j \in 1..Len(world.subs) :
    (world.subs[j].recv.k = "se" /\ BadMustFor(world.subs[j].m, world.subs[j].arg)) =>
      world.subs[j].ret = Nil /\ world.subs[j].made = 0

\* the patches of the file with this tag, by their numbers in world.pat
PatchesOf(tag) == {i \in 1..Len(world.pat) : world.pat[i].pos.node[1] = tag}

\* the patches that carry guards into the init routine
InitPatches(tag) == {i \in PatchesOf(tag) : world.pat[i].text.t = "init"}

\* the error variables of the must calls expanded at file scope: declared
\* by a new top-level var (VisitExpr) or added to the names of a top-level
\* var (VisitDecl)
FileScopeErrs(tag) ==
  {world.pat[i].text.names[2] :
     i \in {j \in PatchesOf(tag) : world.pat[j].text.t = "var"
                                    /\ ~world.pat[j].text.guarded}}
    \cup {world.pat[i].text.names[1] :
            i \in {j \in PatchesOf(tag) : world.pat[j].text.t = "errname"
                                           /\ world.pat[j].pos.edge = "End"}}

\* the package-level func init() declarations of a file
PkgInits(file) ==
  {i \in 1..Len(file.decls) :
     /\ file.decls[i].k = "FuncDecl"
     /\ file.decls[i].recv = Nil
     /\ file.decls[i].name = N_init}

\* C15: after the walk of a file with must calls expanded at file scope,
\* exactly one patch carries their guards, each once, and it is inserted
\* inside the braces of the file's package-level func init() if there is
\* one and is a new func init() otherwise; with no such call there is no
\* such patch
C15_GuardsInInit ==
  walk.status = "exited" =>
    LET errs == FileScopeErrs(CurPath[1])
        inits == PkgInits(CurFile)
    IN IF errs = {} THEN InitPatches(CurPath[1]) = {}
       ELSE /\ Cardinality(InitPatches(CurPath[1])) = 1
            /\ \A i \in InitPatches(CurPath[1]) :
                 LET p == world.pat[i]
                 IN /\ Len(p.text.names) = Cardinality(errs)
                    /\ {p.text.names[j] : j \in 1..Len(p.text.names)} = errs
                    /\ IF inits = {}
                       THEN p.text.newfunc /\ p.pos = Pos(CurPath, "End")
                       ELSE /\ ~p.text.newfunc
                            /\ \E d \in inits :
                                 p.pos = Pos(CurPath \o <<"decl", Idx[d], "body">>,
                                             "Lbrace+1")

\* the file a go build in directory dir writes for the output flag o
OutputFile(dir, o) == IF IsAbs(o) THEN Clean(o) ELSE Join(dir, o)

\* the output file of the command given: its -o value, or the name of the
\* directory of the package built
GivenOutput ==
  LET o == FlagValue(gocmd.given, "o")
  IN OutputFile(gocmd.cmd.WorkDir,
                IF o # <<>> THEN o
                ELSE getOutputFileName(gocmd.cmd, gocmd.main).name)

\* C16: Retarget leaves its receiver and the receiver's flags as they were;
\* the command it returns differs from the receiver in WorkDir and, for
\* build, in the flag o only, and that flag is a path relative to newdir of
\* the file the command given would have written
C16_RetargetEquivalent ==
  gocmd.status = "retargeted" =>
    LET flags == gocmd.maps[gocmd.res.BuildFlags]
    IN /\ gocmd.maps[gocmd.cmd.BuildFlags] = gocmd.given
       /\ gocmd.res.WorkDir = gocmd.newdir
       /\ gocmd.res.Command = gocmd.cmd.Command
       /\ gocmd.res.Executable = gocmd.cmd.Executable
       /\ gocmd.res.Params = gocmd.cmd.Params
       /\ gocmd.res.ExtraFlags = gocmd.cmd.ExtraFlags
       /\ \A n \in (DOMAIN flags \cup DOMAIN gocmd.given) \ {"o"} :
            /\ n \in DOMAIN flags /\ n \in DOMAIN gocmd.given
            /\ flags[n] = gocmd.given[n]
       /\ IF gocmd.cmd.Command = "build"
          THEN /\ ~IsAbs(FlagValue(flags, "o"))
               /\ OutputFile(gocmd.newdir, FlagValue(flags, "o")) = GivenOutput
          ELSE flags = gocmd.given

(***************************************************************************)
(* The bindings of a file by the scope rules of the language, to compare   *)
(* the detector's report with.  A binding is named by the node that        *)
(* declares it and its name; env maps every name in scope to the node      *)
(* that declares it.                                                       *)
(***************************************************************************)

NoUse == [used |-> {}, decl |-> {}, envs |-> {}]
Both(a, b) ==
  [used |-> a.used \cup b.used, decl |-> a.decl \cup b.decl, envs |-> a.envs \cup b.envs]
Declared(names, at) ==
  [NoUse EXCEPT !.decl = {[at |-> at, name |-> n] : n \in names \ {N_blank}}]
\* the names in scope in front of the statement at path
InScope(env, path) == [NoUse EXCEPT !.envs = {[at |-> path, names |-> DOMAIN env]}]
Bind(env, names, at) ==
  [n \in DOMAIN env \cup (names \ {N_blank}) |-> IF n \in names THEN at ELSE env[n]]
NamesOf(idents) == {idents[j].name : j \in 1..Len(idents)}

RECURSIVE GoExpr(_, _, _)
RECURSIVE GoExprs(_, _, _, _, _)
RECURSIVE GoStmt(_, _, _)
RECURSIVE GoList(_, _, _, _)
RECURSIVE GoSpecs(_, _, _, _)

\* the occurrences in an expression, and the bindings declared inside it
GoExpr(e, env, path) ==
  CASE e.k = "Ident" ->
         [NoUse EXCEPT !.used = IF e.name \in DOMAIN env
                                THEN {[at |-> env[e.name], name |-> e.name]} ELSE {}]
    [] e.k = "CallExpr" ->
         Both(GoExpr(e.fun, env, path \o <<"fun">>), GoExprs(e.args, env, path, "arg", 1))
    [] e.k = "FuncLit" -> GoStmt(e.body, env, path \o <<"body">>).use
    [] OTHER -> NoUse

GoExprs(list, env, path, child, i) ==
  IF i > Len(list) THEN NoUse
  ELSE Both(GoExpr(list[i], env, path \o <<child, Idx[i]>>),
            GoExprs(list, env, path, child, i + 1))

\* the specs of a declaration statement: the values of a spec are resolved
\* before its names are in scope
GoSpecs(specs, env, path, i) ==
  IF i > Len(specs) THEN [env |-> env, use |-> NoUse]
  ELSE LET names == {specs[i].names[j] : j \in 1..Len(specs[i].names)}
           u == Both(GoExprs(specs[i].values, env, path \o <<"spec", Idx[i]>>, "value", 1),
                     Declared(names, path))
           rest == GoSpecs(specs, Bind(env, names, path), path, i + 1)
       IN [env |-> rest.env, use |-> Both(u, rest.use)]

\* a statement: the names in scope after it in its block, its occurrences,
\* the bindings it declares and the names in scope in front of every
\* statement in it
GoStmt(s, env, path) ==
  LET Keep(u) == [env |-> env, use |-> Both(u, InScope(env, path))]
      i == IF s.k \in {"IfStmt", "ForStmt", "SwitchStmt"} /\ s.init # Nil
           THEN GoStmt(s.init, env, path \o <<"init">>) ELSE Keep(NoUse)
      Opt(e, child) == IF e # Nil THEN GoExpr(e, i.env, path \o <<child>>) ELSE NoUse
      Sub(t, child) == IF t # Nil THEN GoStmt(t, i.env, path \o <<child>>).use ELSE NoUse
  IN CASE s.k = "ExprStmt" -> Keep(GoExpr(s.x, env, path \o <<"x">>))
       [] s.k = "AssignStmt" ->
            IF s.tok = "DEFINE"
            THEN [env |-> Bind(env, NamesOf(s.lhs), path),
                  use |-> Both(InScope(env, path),
                               Both(GoExprs(s.rhs, env, path, "rhs", 1),
                                    Declared(NamesOf(s.lhs), path)))]
            ELSE Keep(Both(GoExprs(s.lhs, env, path, "lhs", 1),
                           GoExprs(s.rhs, env, path, "rhs", 1)))
       [] s.k = "DeclStmt" ->
            LET r == GoSpecs(s.specs, env, path, 1)
            IN [env |-> r.env, use |-> Both(r.use, InScope(env, path))]
       [] s.k = "LabeledStmt" ->
            LET r == GoStmt(s.stmt, env, path \o <<"stmt">>)
            IN [env |-> r.env, use |-> Both(r.use, InScope(env, path))]
       [] s.k = "IfStmt" ->
            Keep(Both(i.use, Both(Opt(s.cond, "cond"),
                                  Both(Sub(s.body, "body"), Sub(s.els, "else")))))
       [] s.k = "ForStmt" ->
            Keep(Both(i.use, Both(Opt(s.cond, "cond"),
                                  Both(Sub(s.post, "post"), Sub(s.body, "body")))))
       [] s.k = "RangeStmt" ->
            LET x == GoExpr(s.x, env, path \o <<"x">>)
                names == IF s.value # Nil THEN {s.key.name, s.value.name}
                         ELSE {s.key.name}
            IN IF s.tok = "DEFINE"
               THEN Keep(Both(x, Both(Declared(names, path),
                                      GoStmt(s.body, Bind(env, names, path),
                                             path \o <<"body">>).use)))
               ELSE Keep(Both(x, Both(GoExpr(s.key, env, path \o <<"key">>),
                                      Both(GoExpr(s.value, env, path \o <<"value">>),
                                           GoStmt(s.body, env, path \o <<"body">>).use))))
       [] s.k = "SwitchStmt" ->
            Keep(Both(i.use, Both(Opt(s.tag, "tag"), Sub(s.body, "body"))))
       [] s.k = "CaseClause" ->
            Keep(Both(GoExprs(s.list, env, path, "expr", 1),
                      GoList(s.body, env, path, 1).use))
       [] s.k = "BlockStmt" -> Keep(GoList(s.list, env, path, 1).use)

GoList(list, env, path, i) ==
  IF i > Len(list) THEN [env |-> env, use |-> NoUse]
  ELSE LET r == GoStmt(list[i], env, path \o <<"list", Idx[i]>>)
           rest == GoList(list, r.env, path, i + 1)
       IN [env |-> rest.env, use |-> Both(r.use, rest.use)]

\* a declaration of the file, the package-level names in scope
GoDecl(d, env, path) ==
  IF d.k = "FuncDecl"
  THEN LET names == {d.params[j].name : j \in 1..Len(d.params)}
                      \cup (IF d.recv # Nil THEN {d.recv.name} ELSE {})
           e1 == Bind(env, names, path)
       IN Both(Declared(names, path),
               IF d.body # Nil THEN GoStmt(d.body, e1, path \o <<"body">>).use
               ELSE NoUse)
  ELSE LET U(i) == GoExprs(d.specs[i].values, env, path \o <<"spec", Idx[i]>>, "value", 1)
       IN [used |-> UNION {U(i).used : i \in 1..Len(d.specs)},
           decl |-> UNION {U(i).decl : i \in 1..Len(d.specs)},
           envs |-> UNION {U(i).envs : i \in 1..Len(d.specs)}]

RECURSIVE GoDecls(_, _, _, _)
GoDecls(decls, env, tag, i) ==
  IF i > Len(decls) THEN NoUse
  ELSE Both(GoDecl(decls[i], env, tag \o <<"decl", Idx[i]>>),
            GoDecls(decls, env, tag, i + 1))

\* the occurrences, bindings and scopes of a file
GoFile(file, tag) ==
  Both(Declared(PkgNames(file.decls), tag),
       GoDecls(file.decls, [n \in PkgNames(file.decls) |-> tag], tag, 1))

\* the bindings of a file whose only occurrence is their declaration
GoUnused(file, tag) == GoFile(file, tag).decl \ GoFile(file, tag).used

\* the bindings the detector has reported unused in the file with this tag
Reported(tag) ==
  {[at |-> world.scopes[b.scope].node, name |-> b.name] :
     b \in {c \in world.unused : world.scopes[c.scope].node[1] = tag[1]}}

\* the files WalkFile has returned from
Walked == {i \in 1..Len(walk.files) : i < Len(walk.files) \/ walk.status = "exited"}

\* C17: for a file walked with the dead-binding detector, the bindings
\* reported unused are exactly the declared bindings whose only occurrence
\* is their declaration
C17_UnusedExact ==
  "Unused" \in SeqRange(walk.passes) =>
    \A i \in Walked : Reported(<<FileTag[i]>>) = GoUnused(walk.files[i], <<FileTag[i]>>)

\* scope s is in the chain of scopes that starts at scope
RECURSIVE InChain(_, _)
InChain(scope, s) ==
  IF scope = 0 THEN FALSE
  ELSE scope = s \/ InChain(world.scopes[scope].outer, s)

PathPrefix(p, q) == Len(p) <= Len(q) /\ SubSeq(q, 1, Len(p)) = p

\* the statement at path is a range loop the walker has visited
IsRange(path) ==
  \E j \in 1..Len(world.subs) :
    /\ world.subs[j].m = "VisitStmt"
    /\ world.subs[j].node = path
    /\ world.subs[j].arg.k = "RangeStmt"

\* the scopes opened by the header of a statement: by the initializer of an
\* if, for or switch, or by a defining range loop
HeaderScopes ==
  {s \in 1..Len(world.scopes) :
     \/ world.scopes[s].node[Len(world.scopes[s].node)] = "init"
     \/ IsRange(world.scopes[s].node)}

\* the statement whose header opened scope s
HeaderOf(s) ==
  LET node == world.scopes[s].node
  IN IF node[Len(node)] = "init" THEN SubSeq(node, 1, Len(node) - 1) ELSE node

\* the visits the walker made below the part (cond, post, body) of the
\* statement at path
VisitsBelow(path, part) ==
  {c \in 1..Len(world.calls) :
     /\ world.calls[c].m \in {"VisitExpr", "VisitStmt"}
     /\ PathPrefix(path \o <<part>>, world.calls[c].node)}

\* C18: while the walker visits the condition, the post statement and the
\* body of a statement whose header binds names, the scope it hands to the
\* visitors has the header's scope in its chain
C18_HeaderScopeInChain ==
  \A s \in HeaderScopes, part \in {"cond", "post", "body"} :
    \A c \in VisitsBelow(HeaderOf(s), part) : InChain(world.calls[c].scope, s)

\* the patches that declare temporaries: "var tmp, err = ..." and the error
\* name added to the names of a declaration or an assignment
Declaring == {i \in 1..Len(world.pat) : world.pat[i].text.t \in {"var", "errname"}}

TempsOf(i) == SeqRange(world.pat[i].text.names)

AtFileScope(i) ==
  \/ world.pat[i].text.t = "var" /\ ~world.pat[i].text.guarded
  \/ world.pat[i].text.t = "errname" /\ world.pat[i].pos.edge = "End"

\* the node whose scope the statement at path is in: the block or case
\* clause that lists it, or the statement it is the initializer, post
\* statement, body or branch of
ParentOf(path) ==
  IF Len(path) > 2 /\ path[Len(path) - 1] = "list"
  THEN SubSeq(path, 1, Len(path) - 2) ELSE SubSeq(path, 1, Len(path) - 1)

\* where the temporaries of patch i are declared: the package, or the node
\* the patched statement is in
DeclaredIn(i) ==
  IF AtFileScope(i) THEN <<"package">> ELSE ParentOf(world.pat[i].pos.node)

\* the names bound where the temporaries of patch i are declared
BoundAt(i) ==
  IF AtFileScope(i)
  THEN UNION {PkgNames(walk.files[f].decls) : f \in 1..Len(walk.files)}
  ELSE UNION {e.names : e \in {d \in UNION {GoFile(walk.files[f], <<FileTag[f]>>).envs :
                                              f \in 1..Len(walk.files)} :
                                 d.at = world.pat[i].pos.node}}

\* C19: a temporary the expander introduces differs from every name bound
\* in the scope chain where it is declared and from every other temporary
\* declared in the same scope, the package scope of the files of a package
\* included
C19_TempsCollisionFree ==
  \A i \in Declaring :
    /\ TempsOf(i) \cap BoundAt(i) = {}
    /\ Cardinality(TempsOf(i)) = Len(world.pat[i].text.names)
    /\ \A j \in Declaring \ {i} :
         DeclaredIn(i) = DeclaredIn(j) => TempsOf(i) \cap TempsOf(j) = {}

\* the patches that inline a panic guard in a function body
GuardPatches ==
  {i \in 1..Len(world.pat) :
     /\ world.pat[i].op = "Insert"
     /\ \/ world.pat[i].text.t = "guard"
        \/ world.pat[i].text.t = "var" /\ world.pat[i].text.guarded}

\* the must call the guard of patch i is for
MustOf(i) ==
  IF world.pat[i].text.t = "var"
  THEN SubSeq(world.pat[i].text.value, 1, Len(world.pat[i].text.value) - 2)
  ELSE world.pat[i].pos.node \o <<"rhs", "1">>

\* the innermost statement of a block (or case clause) the node at path is
\* in: the longest prefix of the path that is an element of a statement list
Originating(path) ==
  LET ks == {k \in 2..Len(path) : path[k - 1] = "list"}
  IN SubSeq(path, 1, CHOOSE k \in ks : \A j \in ks : j <= k)

\* C20: the panic guard of a must call in a function body is inlined at the
\* originating statement, the innermost statement of the enclosing block
\* that contains the call
C20_GuardAtOriginatingStmt ==
  \A i \in GuardPatches : world.pat[i].pos.node = Originating(MustOf(i))

====
